---------------------------- MODULE Spec2Model ----------------------------
(***************************************************************************)
(* Model of KMeansMPI<k,d> (src/K-Means_Clustering_Using_MPI/KMeansMPI.h): *)
(* worldSize MPI processes run fitWork(rank); rank ROOT holds the dataset. *)
(* Each process is a little program counter walking through fitWork; the   *)
(* collectives (MPI_Bcast, MPI_Scatterv, MPI_Gather, MPI_Gatherv) are      *)
(* modelled by FIFO channels root->rank and rank->root: a collective       *)
(* returns on a process as soon as its own part is done, as MPI allows.    *)
(* Indices are 0-based as in the source; buffers are functions 0..len-1.   *)
(***************************************************************************)
EXTENDS Integers, Sequences, FiniteSets, TLC

(* ------------------------------ bounds -------------------------------- *)
\* the template parameter d (dimension of an Element) of the instances checked
d == 2
\* largest world size, dataset size and template parameter k that Init draws
MaxP == 2
MaxN == 3
MaxK == 2
\* size of the large datasets: one more than an unsigned char can count
BigN == 257
MaxReports == 2
MaxCount == 2
\* class Heap: largest item, longest array given to the all-at-once constructor,
\* most items a heap is let grow to
MaxValue == 2
MaxLen == 2
MaxSize == 3
MaxSortLen == 8
MaxSortValue == 1
MaxLength == 4      \* prefixSums: the array's length is at most this

(* ------------------------- program constants -------------------------- *)
MAX_NUM_GENERATIONS == 300
ROOT == 0
\* unsigned char holds 0..ByteRange-1
ByteRange == 256
\* Heap::INITIAL_CAPACITY
INITIAL_CAPACITY == 17
numThreads == 2
EncodeRounds == 500

VARIABLES
    worldSize,   \* size of MPI_COMM_WORLD
    k,           \* template parameter k of the instance
    elements,    \* the root's dataset (fit's colorList), 0..n-1 -> Element
    nanByte,     \* what (unsigned char)(int)NaN gives on this build
    samplePool,  \* indices the random device lets std::sample pick from
    pc,          \* per rank: the statement of fitWork about to run
    nColors, proccesses, maxNum, partition, colorIds, clusters, dist,
    prev, generation,
    toRank,      \* per rank: messages root -> rank in flight (FIFO)
    toRoot,      \* per rank: messages rank -> root in flight (FIFO)
    lastBcast,   \* history: per rank, root's centroids when the broadcast it last completed was sent
    exitVia,     \* history: per rank, how the generation loop was left
    reports,     \* the merge taken alone: the reports (centroid, size) to merge
    todo,        \* ... the reports not merged yet
    acc,         \* ... the cluster's centroid and clusterSize so far
    heap,        \* class Heap: a record of its members data, size, capacity, of
                 \* what the last operation returned and threw, and of the
                 \* bag of items in the queue (history)
    bitonic,     \* class Bitonic: a record of the container *data, of the loop
                 \* variables k, j, i of sort(), and of the input (history)
    sums         \* prefixSums: a record of the array, of the main thread's
                 \* position and locals, and of the threads of the two groups

vars == <<worldSize, k, elements, nanByte, samplePool, pc, nColors, proccesses,
          maxNum, partition, colorIds, clusters, dist, prev, generation,
          toRank, toRoot, lastBcast, exitVia, reports, todo, acc,
          heap, bitonic, sums>>

calc == <<reports, todo, acc>>

\* class Heap: the members, "new" before a constructor has run and then
\* "ready", what the last peek or dequeue returned, what the last operation
\* threw ("" for nothing), and the bag of items enqueued and not yet dequeued
data == heap.data
heapSize == heap.size
capacity == heap.capacity
heapPc == heap.pc
ret == heap.ret
thrown == heap.thrown
queued == heap.queued

\* class Bitonic: the container, the loop variables of sort(), where sort()
\* is, and the container as sort() found it
sortData == bitonic.data
sortK == bitonic.k
sortJ == bitonic.j
sortI == bitonic.i
sortPc == bitonic.pc
sortInput == bitonic.input

\* what a run of fitWork does not touch: the merge taken alone and the
\* repository's other programs
apart == <<calc, heap, bitonic, sums>>

config == <<worldSize, k, elements, nanByte, samplePool>>

Ranks == 0 .. worldSize - 1
Dims == 0 .. d - 1
Byte(x) == x % ByteRange

(* ------------------------------ helpers ------------------------------- *)
\* an Element with the given first two channels, zero elsewhere
Pt(a, b) == [j \in Dims |-> IF j = 0 THEN a ELSE IF j = 1 THEN b ELSE 0]
ZeroElement == [j \in Dims |-> 0]
n == Cardinality(DOMAIN elements)

RECURSIVE SumTo(_, _)
SumTo(f, m) == IF m = 0 THEN 0 ELSE f[m - 1] + SumTo(f, m - 1)

RECURSIVE Ascending(_)
\* the indices of S in increasing order, as a 0-based function
Ascending(S) ==
    IF S = {} THEN << >>
    ELSE LET m == CHOOSE x \in S : \A y \in S : x <= y
         IN  <<m>> \o Ascending(S \ {m})

Centroids(cl) == [i \in DOMAIN cl |-> cl[i].centroid]


(* ------------------------ pure functions of the class ----------------- *)
RECURSIVE SqDiffs(_, _, _)
SqDiffs(x, y, m) ==
    IF m = 0 THEN 0
    ELSE (x[m - 1] - y[m - 1]) * (x[m - 1] - y[m - 1]) + SqDiffs(x, y, m - 1)

\* MNISTPixel::calculateEuclideanDistance is sqrt of this sum; the sum is an
\* integer below 2^53 and sqrt is strictly increasing there, and the class only
\* ever compares distances with <, so the square is kept.
distance(first, second) == SqDiffs(first, second, d)

\* mutant: the weighted total is stored without the division
updateCentroid_Total(centroid, centroidCount, newElement, newElementCount) ==
    LET nn == centroidCount + newElementCount
    IN  [i \in Dims |->
            IF nn = 0 THEN nanByte
            ELSE Byte(centroid[i] * centroidCount + newElement[i] * newElementCount)]

\* mutant: the mean is rounded up instead of truncated
updateCentroid_RoundedUp(centroid, centroidCount, newElement, newElementCount) ==
    LET nn == centroidCount + newElementCount
    IN  [i \in Dims |->
            IF nn = 0 THEN nanByte
            ELSE Byte((centroid[i] * centroidCount
                       + newElement[i] * newElementCount + nn - 1) \div nn)]

\* int size = sum / n with n = 0 is 0.0/0.0 = NaN, whose conversion to int is
\* undefined: the build's conversion instruction decides (nanByte).
updateCentroid(centroid, centroidCount, newElement, newElementCount) ==
    LET nn == centroidCount + newElementCount
    IN  [i \in Dims |->
            IF nn = 0 THEN nanByte
            ELSE Byte((centroid[i] * centroidCount
                       + newElement[i] * newElementCount) \div nn)]

colorsEachProcess(nc, procs) == nc \div procs

\* mutant: the last rank keeps no remainder
ShardSize_NoRemainder(rank, nc, procs) == colorsEachProcess(nc, procs)

\* maxNum as partitionColors sets it
ShardSize(rank, nc, procs) ==
    IF rank = procs - 1
    THEN nc - (colorsEachProcess(nc, procs) * (procs - 1))
    ELSE colorsEachProcess(nc, procs)

(* partitionColors, root side: marshalling and the Scatterv arguments *)
PartitionSendbuf ==
    [x \in 0 .. n * (d + 1) - 1 |->
        LET i == x \div (d + 1)
            j == x % (d + 1)
        IN  IF j < d THEN elements[i][j] ELSE Byte(i)]

ScatterDispl(z, nc, procs) == z * colorsEachProcess(nc, procs) * (d + 1)

ScatterSendcount(z, nc, procs) ==
    IF z = procs - 1
    THEN nc * (d + 1) - ((procs - 1) * colorsEachProcess(nc, procs) * (d + 1))
    ELSE colorsEachProcess(nc, procs) * (d + 1)

ScatterChunk(z, nc, procs) ==
    [x \in 0 .. ScatterSendcount(z, nc, procs) - 1 |->
        PartitionSendbuf[ScatterDispl(z, nc, procs) + x]]

(* partitionColors, every rank: unmarshalling of recvbuf *)
UnmarshalPartition(recvbuf, mx) ==
    [i \in 0 .. mx - 1 |-> [j \in Dims |-> recvbuf[i * (d + 1) + j]]]

UnmarshalColorIds(recvbuf, mx) ==
    [i \in 0 .. mx - 1 |-> recvbuf[i * (d + 1) + d]]

(* updateDistances *)
Distances(cl, part, mx) ==
    [i \in 0 .. mx - 1 |->
        [j \in 0 .. k - 1 |-> distance(cl[j].centroid, part[i])]]

(* updateClusters: the inner loop that finds min, then the outer loop *)
RECURSIVE ClosestFrom(_, _, _)
ClosestFrom(row, j, min) ==
    IF j >= k THEN min
    ELSE ClosestFrom(row, j + 1, IF row[j] < row[min] THEN j ELSE min)

RECURSIVE ClosestLastFrom(_, _, _)
ClosestLastFrom(row, j, min) ==
    IF j >= k THEN min
    ELSE ClosestLastFrom(row, j + 1, IF row[j] <= row[min] THEN j ELSE min)

\* mutant: <= instead of <, a tie goes to the highest index
Closest_TieToLast(row) == ClosestLastFrom(row, 1, 0)

Closest(row) == ClosestFrom(row, 1, 0)

ResetClusters ==
    [j \in 0 .. k - 1 |-> [elements |-> << >>, centroid |-> ZeroElement]]

\* one iteration of the outer loop: element i joins its closest cluster
AssignOne(cl, i, part, dst) ==
    [cl EXCEPT ![Closest(dst[i])] =
        [centroid |-> updateCentroid(@.centroid, Len(@.elements), part[i], 1),
         elements |-> Append(@.elements, i)]]

\* the iterations lo .. hi - 1 in order: the first half, then the second half.
\* It is the same sequence of iterations; the test on DOMAIN is always true and
\* only has TLC finish the first half before it starts the second, so that the
\* evaluation of a long loop stays shallow.
RECURSIVE AssignFrom(_, _, _, _, _)
AssignFrom(cl, lo, part, dst, hi) ==
    IF hi <= lo THEN cl
    ELSE IF hi = lo + 1 THEN AssignOne(cl, lo, part, dst)
    ELSE LET mid == (lo + hi) \div 2
             firstHalf == AssignFrom(cl, lo, part, dst, mid)
         IN  IF DOMAIN firstHalf = DOMAIN cl
             THEN AssignFrom(firstHalf, mid, part, dst, hi)
             ELSE firstHalf

\* mutant: the loop stops one element short
updateClusters_SkipLast(part, dst, mx) ==
    AssignFrom(ResetClusters, 0, part, dst, mx - 1)

updateClusters(part, dst, mx) == AssignFrom(ResetClusters, 0, part, dst, mx)

(* combineClusters: serialization, and the root's merge of recvbuf *)
\* a report that carries the member count unnarrowed
CombineSendbuf_FullCount(cl) ==
    [x \in 0 .. k * (d + 1) - 1 |->
        LET i == x \div (d + 1)
            j == x % (d + 1)
        IN  IF j < d THEN cl[i].centroid[j] ELSE Len(cl[i].elements)]

CombineSendbuf(cl) ==
    [x \in 0 .. k * (d + 1) - 1 |->
        LET i == x \div (d + 1)
            j == x % (d + 1)
        IN  IF j < d THEN cl[i].centroid[j] ELSE Byte(Len(cl[i].elements))]

RECURSIVE MergeFrom(_, _, _, _, _, _)
\* cluster i's centroid after the reports of ranks z .. procs-1 are merged in
MergeFrom(centroid, clusterSize, recvbuf, i, z, procs) ==
    IF z >= procs THEN centroid
    ELSE LET base == (z * k + i) * (d + 1)
             c    == [j \in Dims |-> recvbuf[base + j]]
             size == recvbuf[base + d]
         IN  MergeFrom(updateCentroid(centroid, clusterSize, c, size),
                       clusterSize + size, recvbuf, i, z + 1, procs)

MergeClusters(cl, recvbuf, procs) ==
    [i \in 0 .. k - 1 |->
        [cl[i] EXCEPT !.centroid =
            MergeFrom(cl[i].centroid, Len(cl[i].elements), recvbuf, i, 0, procs)]]

\* one step of the root's merge loop: updateCentroid(clusters[i].centroid,
\* clusterSizes[i], centroid, size); clusterSizes[i] += size
MergeReport(a, rep) ==
    [centroid |-> updateCentroid(a.centroid, a.clusterSize, rep.centroid, rep.size),
     clusterSize |-> a.clusterSize + rep.size]

(* distributeCentroids: the broadcast buffer and its unmarshalling *)
CentroidBuffer(cl) ==
    [x \in 0 .. k * d - 1 |-> cl[x \div d].centroid[x % d]]

\* mutant: the buffer is read dimension-major
ReceiveCentroids_Transposed(cl, buffer) ==
    [i \in 0 .. k - 1 |->
        [cl[i] EXCEPT !.centroid = [j \in Dims |-> buffer[(j * k + i) % (k * d)]]]]

ReceiveCentroids(cl, buffer) ==
    [i \in 0 .. k - 1 |->
        [cl[i] EXCEPT !.centroid = [j \in Dims |-> buffer[i * d + j]]]]

(* selectClusters: std::sample keeps the population's order *)
\* what the reads past the end of selectedColors can bring when k exceeds the
\* number of sampled indices (sample() yields min(k, nColors) of them): the
\* process faults, or each such centroid is whatever bytes the read finds
StrayElements == {ZeroElement, Pt(255, 255)}

SelectOutcomes ==
    IF k <= Cardinality(samplePool)
    THEN {[fault |-> FALSE, stray |-> [i \in 0 .. k - 1 |-> ZeroElement]]}
    ELSE {[fault |-> TRUE, stray |-> [i \in 0 .. k - 1 |-> ZeroElement]]}
         \cup {[fault |-> FALSE, stray |-> f] : f \in [0 .. k - 1 -> StrayElements]}

\* mutant: every centroid is read through selectedColors[0]
SelectedClusters_Repeated(S, stray) ==
    LET selectedColors == Ascending(S)
    IN  [i \in 0 .. k - 1 |->
            [centroid |-> IF 0 < Len(selectedColors)
                          THEN elements[selectedColors[1]]
                          ELSE stray[i],
             elements |-> << >>]]

SelectedClusters(S, stray) ==
    LET selectedColors == Ascending(S)
    IN  [i \in 0 .. k - 1 |->
            [centroid |-> IF i < Len(selectedColors)
                          THEN elements[selectedColors[i + 1]]
                          ELSE stray[i],
             elements |-> << >>]]

(* collectClusterAssignments: serialization, Gatherv layout, deserialization *)
RECURSIVE AssignmentBytes(_, _, _)
AssignmentBytes(cl, ids, i) ==
    IF i >= k THEN << >>
    ELSE <<Byte(Len(cl[i].elements))>>
         \o [e \in 1 .. Len(cl[i].elements) |-> Byte(ids[cl[i].elements[e]])]
         \o AssignmentBytes(cl, ids, i + 1)

\* the sendcount bytes MPI_Gatherv takes from sendbuf
CollectSendbuf(cl, ids, mx) ==
    LET bytes == AssignmentBytes(cl, ids, 0)
    IN  [x \in 0 .. mx + k - 1 |-> IF x < Len(bytes) THEN bytes[x + 1] ELSE 0]

GatherDispl(z, nc, procs) == z * (colorsEachProcess(nc, procs) + k)

GatherRecvcount(z, nc, procs) ==
    IF z = procs - 1
    THEN (nc - (colorsEachProcess(nc, procs) * (procs - 1))) + k
    ELSE colorsEachProcess(nc, procs) + k

\* recvbuf after MPI_Gatherv: msgs[z] is what rank z sent
GatherRecvbuf(msgs, nc, procs) ==
    [x \in 0 .. nc + k * procs - 1 |->
        LET from == {z \in 0 .. procs - 1 :
                        /\ GatherDispl(z, nc, procs) <= x
                        /\ x < GatherDispl(z, nc, procs) + GatherRecvcount(z, nc, procs)
                        /\ x - GatherDispl(z, nc, procs) \in DOMAIN msgs[z]}
        IN  IF from = {} THEN 0
            ELSE LET z == CHOOSE z \in from : \A y \in from : y <= z
                 IN  msgs[z][x - GatherDispl(z, nc, procs)]]

At(buf, x) == IF x \in DOMAIN buf THEN buf[x] ELSE 0

\* one block of recvbuf: a size, then that many element indices
ReadBlock(cl, recvbuf, i, bufferIndex) ==
    LET size == At(recvbuf, bufferIndex)
        ids  == [e \in 1 .. size |-> At(recvbuf, bufferIndex + e)]
    IN  [cl |-> [cl EXCEPT ![i].elements = @ \o ids],
         bufferIndex |-> bufferIndex + 1 + size]

\* the loops over z and i; read is bound to the block's result as a value, so
\* that each block of the buffer is read once
RECURSIVE DeserializeFrom(_, _, _, _, _, _)
DeserializeFrom(cl, recvbuf, z, i, bufferIndex, procs) ==
    IF z >= procs THEN cl
    ELSE CHOOSE out \in
             {DeserializeFrom(read.cl, recvbuf,
                              IF i = k - 1 THEN z + 1 ELSE z,
                              IF i = k - 1 THEN 0 ELSE i + 1,
                              read.bufferIndex, procs) :
                  read \in {ReadBlock(cl, recvbuf, i, bufferIndex)}} : TRUE

\* mutant: the root's deserialization resets the centroids with the lists
Deserialize_ResetsCentroids(cl, recvbuf, procs) ==
    DeserializeFrom([i \in 0 .. k - 1 |->
                        [centroid |-> ZeroElement, elements |-> << >>]],
                    recvbuf, 0, 0, 0, procs)

Deserialize(cl, recvbuf, procs) ==
    DeserializeFrom([i \in 0 .. k - 1 |-> [cl[i] EXCEPT !.elements = << >>]],
                    recvbuf, 0, 0, 0, procs)

(* ------------------------------- inputs -------------------------------- *)
Points == {Pt(0, 0), Pt(1, 1), Pt(2, 0)}
Datasets == UNION {[0 .. m - 1 -> Points] : m \in 1 .. MaxN}
\* (int)NaN is INT_MIN on x86 and 0 on ARM (byte 0), INT_MAX on RISC-V (byte 255)
NaNBytes == {0, 255}

SmallInputs ==
    {in \in [P : 1 .. MaxP, k : 1 .. MaxK, elements : Datasets,
             nanByte : NaNBytes, samplePool : {{}}] :
        in.k <= Cardinality(DOMAIN in.elements)}

InitFrom(in) ==
    /\ worldSize = in.P
    /\ k = in.k
    /\ elements = in.elements
    /\ nanByte = in.nanByte
    /\ samplePool = IF in.samplePool = {} THEN DOMAIN in.elements ELSE in.samplePool
    /\ pc = [r \in 0 .. in.P - 1 |-> "broadcastSize"]
    /\ nColors = [r \in 0 .. in.P - 1 |->
                     IF r = ROOT THEN Cardinality(DOMAIN in.elements) ELSE 0]
    /\ proccesses = [r \in 0 .. in.P - 1 |-> 0]
    /\ maxNum = [r \in 0 .. in.P - 1 |-> 0]
    /\ partition = [r \in 0 .. in.P - 1 |-> << >>]
    /\ colorIds = [r \in 0 .. in.P - 1 |-> << >>]
    /\ clusters = [r \in 0 .. in.P - 1 |->
                      [i \in 0 .. in.k - 1 |->
                          [elements |-> << >>, centroid |-> ZeroElement]]]
    /\ dist = [r \in 0 .. in.P - 1 |-> << >>]
    /\ prev = [r \in 0 .. in.P - 1 |-> [i \in 0 .. in.k - 1 |-> ZeroElement]]
    /\ generation = [r \in 0 .. in.P - 1 |-> 0]
    /\ toRank = [r \in 0 .. in.P - 1 |-> << >>]
    /\ toRoot = [r \in 0 .. in.P - 1 |-> << >>]
    /\ lastBcast = [r \in 0 .. in.P - 1 |-> [i \in 0 .. in.k - 1 |-> ZeroElement]]
    /\ exitVia = [r \in 0 .. in.P - 1 |-> "none"]

\* in a run of fitWork the merge is not taken alone
NoMerge ==
    /\ reports = << >>
    /\ todo = {}
    /\ acc = [centroid |-> ZeroElement, clusterSize |-> 0]

\* ... and no Heap and no Bitonic object exists in this program
NoHeap ==
    heap = [data |-> << >>, size |-> 0, capacity |-> 0, pc |-> "none",
            ret |-> 0, thrown |-> "", queued |-> << >>]

NoBitonic ==
    bitonic = [data |-> << >>, input |-> << >>, k |-> 0, j |-> 0, i |-> 0,
               pc |-> "none"]

\* ... and prefixSums is not running
NoThreads == [id \in 0 .. 1 |-> [state |-> "none", i |-> 0, held |-> 0,
                                 holding |-> FALSE, touched |-> {}]]

NoSums ==
    sums = [data |-> << >>, length |-> 0, segSize |-> 0, pc |-> "none",
            created |-> 0, i |-> 0,
            encodedSum |-> 0, holding |-> FALSE, touched |-> {},
            encoders |-> NoThreads, decoders |-> NoThreads]

Init == \E in \in SmallInputs : InitFrom(in) /\ NoMerge /\ NoHeap /\ NoBitonic /\ NoSums

\* datasets on which the centroids never settle (and, from other samples, do)
OscillatingDatasets ==
    {<<Pt(0, 0), Pt(0, 1), Pt(1, 1), Pt(2, 0)>>,
     <<Pt(0, 0), Pt(1, 1), Pt(0, 1), Pt(3, 0)>>}

ZeroBased(seq) == [i \in 0 .. Len(seq) - 1 |-> seq[i + 1]]

OscInputs ==
    {in \in [P : 1 .. MaxP, k : 1 .. MaxK,
             elements : {ZeroBased(s) : s \in OscillatingDatasets},
             nanByte : NaNBytes, samplePool : {{}}] : in.k >= 2}

InitOsc == \E in \in OscInputs : InitFrom(in) /\ NoMerge /\ NoHeap /\ NoBitonic /\ NoSums

\* datasets of about BigN elements, for what one byte per index can carry
BigDataset(m) == [i \in 0 .. m - 1 |-> Pt(i % 3, i \div ByteRange)]

BigInputs ==
    {[P |-> p, k |-> 1, elements |-> BigDataset(m), nanByte |-> b,
      samplePool |-> {0, m - 1}] :
        p \in 1 .. MaxP, m \in BigN - 1 .. BigN + 1, b \in NaNBytes}

InitBig == \E in \in BigInputs : InitFrom(in) /\ NoMerge /\ NoHeap /\ NoBitonic /\ NoSums

\* the same datasets split in two clusters
BigTwoInputs ==
    {[P |-> p, k |-> 2, elements |-> BigDataset(BigN), nanByte |-> b,
      samplePool |-> {0, BigN - 1}] : p \in 1 .. MaxP, b \in NaNBytes}

InitBigTwo == \E in \in BigTwoInputs : InitFrom(in) /\ NoMerge /\ NoHeap /\ NoBitonic /\ NoSums

\* two shards of BigN elements each, far apart, for what one byte per member
\* count can carry
WideDataset == [i \in 0 .. 2 * BigN - 1 |-> IF i < BigN THEN Pt(0, 0) ELSE Pt(200, 0)]

WideInputs ==
    {[P |-> p, k |-> 1, elements |-> WideDataset, nanByte |-> b,
      samplePool |-> {0, BigN}] : p \in 1 .. MaxP, b \in NaNBytes}

InitWide == \E in \in WideInputs : InitFrom(in) /\ NoMerge /\ NoHeap /\ NoBitonic /\ NoSums

\* datasets with channels at the top of the byte range
EdgeDatasets ==
    {<<Pt(255, 0), Pt(0, 0)>>,
     <<Pt(255, 255), Pt(254, 0), Pt(0, 1)>>}

EdgeInputs ==
    {in \in [P : 1 .. MaxP, k : 1 .. MaxK,
             elements : {ZeroBased(s) : s \in EdgeDatasets},
             nanByte : NaNBytes, samplePool : {{}}] :
        in.k <= Cardinality(DOMAIN in.elements)}

InitEdge == \E in \in EdgeInputs : InitFrom(in) /\ NoMerge /\ NoHeap /\ NoBitonic /\ NoSums

\* runs whose initial centroids are given: the pool holds just the k sampled
\* indices
GivenSampleInputs ==
    {in \in [P : 1 .. MaxP, k : 1 .. MaxK,
             elements : {ZeroBased(s) : s \in OscillatingDatasets \cup EdgeDatasets},
             nanByte : NaNBytes,
             samplePool : SUBSET (0 .. 3)] :
        /\ in.samplePool \subseteq DOMAIN in.elements
        /\ Cardinality(in.samplePool) = in.k}

InitGivenSample ==
    \E in \in GivenSampleInputs : InitFrom(in) /\ NoMerge /\ NoHeap /\ NoBitonic /\ NoSums

\* configurations with more clusters than elements (the empty dataset included)
InvalidInputs ==
    {in \in [P : 1 .. MaxP, k : 1 .. MaxK,
             elements : UNION {[0 .. m - 1 -> Points] : m \in 0 .. MaxK - 1},
             nanByte : NaNBytes, samplePool : {{}}] :
        in.k > Cardinality(DOMAIN in.elements)}

InitInvalid == \E in \in InvalidInputs : InitFrom(in) /\ NoMerge /\ NoHeap /\ NoBitonic /\ NoSums

\* the merge taken alone: up to MaxReports reports of up to MaxCount elements
\* each, merged into a cluster that starts as one such report (as the root's
\* cluster starts from its own local centroid and size)
ReportSet == [centroid : Points, size : 0 .. MaxCount]

MergeInputs ==
    [reports : UNION {[0 .. m - 1 -> ReportSet] : m \in 1 .. MaxReports},
     start : ReportSet, nanByte : NaNBytes]

InitMerge ==
    \E in \in MergeInputs :
        /\ InitFrom([P |-> 1, k |-> 1, elements |-> [i \in {0} |-> ZeroElement],
                     nanByte |-> in.nanByte, samplePool |-> {}])
        /\ reports = in.reports
        /\ todo = DOMAIN in.reports
        /\ acc = [centroid |-> in.start.centroid, clusterSize |-> in.start.size]
        /\ NoHeap /\ NoBitonic /\ NoSums

\* reports whose channels sit at both ends of the byte range
EdgePoints == {Pt(0, 0), Pt(255, 1), Pt(254, 255)}

EdgeReportSet == [centroid : EdgePoints, size : 0 .. MaxCount]

EdgeMergeInputs ==
    [reports : UNION {[0 .. m - 1 -> EdgeReportSet] : m \in 1 .. MaxReports},
     start : EdgeReportSet, nanByte : NaNBytes]

InitMergeEdge ==
    \E in \in EdgeMergeInputs :
        /\ InitFrom([P |-> 1, k |-> 1, elements |-> [i \in {0} |-> ZeroElement],
                     nanByte |-> in.nanByte, samplePool |-> {}])
        /\ reports = in.reports
        /\ todo = DOMAIN in.reports
        /\ acc = [centroid |-> in.start.centroid, clusterSize |-> in.start.size]
        /\ NoHeap /\ NoBitonic /\ NoSums

\* A dataset whose centroids change in each of the first MAX_NUM_GENERATIONS - 1
\* rounds and not in the next one.  ByteRange elements at (0, 0) and ByteRange
\* elements at (255, 255) make two clusters so large that one more member moves
\* a centroid byte by at most one; each of the Walkers is nearer to the second
\* centroid from one round on, and pulls it one step down when it joins.
Walkers ==
    <<
    <<2, 255>>, <<0, 255>>, <<32, 222>>, <<252, 2>>, <<253, 1>>, <<253, 0>>, <<252, 0>>,
      <<210, 41>>, <<2, 249>>, <<0, 251>>, <<0, 250>>, <<248, 1>>, <<249, 0>>, <<248, 0>>,
      <<180, 67>>, <<0, 248>>, <<1, 246>>, <<0, 246>>, <<244, 1>>, <<245, 0>>, <<1, 243>>,
      <<0, 244>>, <<0, 243>>, <<2, 240>>, <<240, 2>>, <<242, 0>>, <<241, 0>>, <<240, 0>>,
      <<208, 31>>, <<0, 240>>, <<1, 237>>, <<0, 238>>, <<0, 237>>, <<97, 139>>, <<237, 0>>,
      <<235, 1>>, <<235, 0>>, <<234, 0>>, <<147, 86>>, <<0, 234>>, <<1, 231>>, <<0, 232>>,
      <<0, 231>>, <<53, 177>>, <<228, 2>>, <<228, 1>>, <<229, 0>>, <<1, 227>>, <<0, 228>>,
      <<226, 1>>, <<227, 0>>, <<226, 0>>, <<150, 75>>, <<2, 223>>, <<1, 224>>, <<0, 224>>,
      <<0, 223>>, <<61, 161>>, <<220, 2>>, <<222, 0>>, <<221, 0>>, <<220, 0>>, <<196, 23>>,
      <<0, 220>>, <<1, 217>>, <<0, 218>>, <<0, 217>>, <<56, 160>>, <<214, 2>>, <<214, 1>>,
      <<215, 0>>, <<214, 0>>, <<170, 43>>, <<0, 214>>, <<1, 211>>, <<0, 212>>, <<210, 1>>,
      <<211, 0>>, <<1, 209>>, <<0, 210>>, <<0, 209>>, <<1, 207>>, <<206, 2>>, <<208, 0>>,
      <<207, 0>>, <<206, 0>>, <<169, 36>>, <<2, 203>>, <<1, 204>>, <<0, 204>>, <<202, 1>>,
      <<203, 0>>, <<1, 201>>, <<0, 202>>, <<0, 201>>, <<66, 134>>, <<198, 2>>, <<199, 1>>,
      <<199, 0>>, <<198, 0>>, <<146, 51>>, <<0, 198>>, <<1, 196>>, <<0, 196>>, <<194, 1>>,
      <<195, 0>>, <<194, 0>>, <<142, 51>>, <<0, 194>>, <<1, 192>>, <<0, 192>>, <<190, 1>>,
      <<191, 0>>, <<1, 189>>, <<0, 190>>, <<0, 189>>, <<11, 177>>, <<189, 0>>, <<186, 1>>,
      <<187, 0>>, <<1, 185>>, <<0, 186>>, <<184, 1>>, <<185, 0>>, <<184, 0>>, <<124, 59>>,
      <<2, 181>>, <<0, 183>>, <<0, 182>>, <<180, 1>>, <<181, 0>>, <<1, 179>>, <<0, 180>>,
      <<0, 179>>, <<32, 146>>, <<176, 2>>, <<178, 0>>, <<177, 0>>, <<176, 0>>, <<147, 28>>,
      <<2, 173>>, <<1, 173>>, <<0, 174>>, <<0, 173>>, <<3, 169>>, <<173, 0>>, <<171, 1>>,
      <<171, 0>>, <<170, 0>>, <<110, 59>>, <<2, 167>>, <<0, 169>>, <<0, 168>>, <<0, 167>>,
      <<77, 89>>, <<167, 0>>, <<164, 1>>, <<165, 0>>, <<1, 163>>, <<0, 164>>, <<0, 163>>,
      <<4, 158>>, <<160, 2>>, <<161, 1>>, <<161, 0>>, <<1, 159>>, <<0, 160>>, <<0, 159>>,
      <<67, 91>>, <<156, 2>>, <<157, 1>>, <<157, 0>>, <<156, 0>>, <<86, 69>>, <<2, 153>>,
      <<0, 155>>, <<0, 154>>, <<0, 153>>, <<39, 113>>, <<150, 2>>, <<150, 1>>, <<151, 0>>,
      <<150, 0>>, <<96, 53>>, <<2, 147>>, <<1, 148>>, <<0, 148>>, <<0, 147>>, <<1, 145>>,
      <<144, 2>>, <<146, 0>>, <<145, 0>>, <<144, 0>>, <<94, 49>>, <<0, 144>>, <<1, 141>>,
      <<0, 142>>, <<140, 1>>, <<141, 0>>, <<1, 139>>, <<0, 140>>, <<0, 139>>, <<63, 75>>,
      <<136, 2>>, <<138, 0>>, <<137, 0>>, <<136, 0>>, <<133, 2>>, <<2, 133>>, <<0, 135>>,
      <<0, 134>>, <<132, 1>>, <<133, 0>>, <<1, 131>>, <<0, 132>>, <<0, 131>>, <<41, 89>>,
      <<128, 2>>, <<129, 1>>, <<129, 0>>, <<1, 127>>, <<0, 128>>, <<0, 127>>, <<53, 73>>,
      <<127, 0>>, <<126, 0>>, <<125, 0>>, <<124, 0>>, <<112, 11>>, <<0, 124>>, <<0, 123>>,
      <<0, 122>>, <<0, 121>>, <<8, 112>>, <<118, 2>>, <<118, 1>>, <<119, 0>>, <<118, 0>>,
      <<108, 9>>, <<2, 115>>, <<1, 116>>, <<0, 116>>, <<114, 1>>, <<115, 0>>, <<114, 0>>,
      <<65, 48>>, <<2, 111>>, <<0, 113>>, <<0, 112>>, <<0, 111>>, <<37, 73>>, <<108, 2>>,
      <<109, 1>>, <<109, 0>>, <<108, 0>>, <<59, 48>>, <<2, 105>>, <<0, 107>>, <<0, 106>>,
      <<104, 1>>, <<105, 0>>, <<104, 0>>, <<57, 46>>, <<0, 104>>, <<1, 102>>, <<0, 102>>,
      <<100, 1>>, <<101, 0>>, <<100, 0>>, <<87, 12>>, <<0, 100>>, <<1, 97>>, <<0, 98>>,
      <<0, 97>>, <<2, 94>>, <<97, 0>>, <<94, 1>>, <<95, 0>>, <<1, 93>>, <<0, 94>>,
      <<0, 93>>, <<2, 90>>, <<90, 2>>, <<90, 1>>, <<91, 0>>, <<1, 89>>, <<0, 90>>,
      <<88, 1>>, <<89, 0>>, <<1, 87>>, <<0, 88>>, <<0, 87>>, <<27, 59>>, <<87, 0>>,
      <<86, 0>>, <<85, 0>>, <<84, 0>>, <<73, 10>>, <<2, 81>>
    >>

LongDataset ==
    [i \in 0 .. 2 * ByteRange + Len(Walkers) - 1 |->
        IF i < ByteRange THEN Pt(0, 0)
        ELSE IF i < 2 * ByteRange THEN Pt(255, 255)
        ELSE Pt(Walkers[i - 2 * ByteRange + 1][1], Walkers[i - 2 * ByteRange + 1][2])]

LongInputs ==
    {[P |-> 1, k |-> 2, elements |-> LongDataset, nanByte |-> b,
      samplePool |-> {0, ByteRange}] : b \in NaNBytes}

InitLong == \E in \in LongInputs : InitFrom(in) /\ NoMerge /\ NoHeap /\ NoBitonic /\ NoSums

(* ------------------------------- actions ------------------------------- *)
Others == Ranks \ {ROOT}
Msg(tag, buf, sent) == [tag |-> tag, buf |-> buf, sent |-> sent]
\* the root hands one message per other rank to the library
SendToOthers(m(_)) ==
    toRank' = [z \in Ranks |-> IF z = ROOT THEN toRank[z] ELSE Append(toRank[z], m(z))]
Receive(r) == toRank' = [toRank EXCEPT ![r] = Tail(@)]

\* broadcastSize: MPI_Bcast(&nColors, 1, MPI_INT, ROOT)
BroadcastSize(r) ==
    /\ pc[r] = "broadcastSize"
    /\ IF r = ROOT
       THEN /\ LET m(z) == Msg("size", <<nColors[ROOT]>>, << >>) IN SendToOthers(m)
            /\ UNCHANGED nColors
       ELSE /\ toRank[r] # << >>
            /\ nColors' = [nColors EXCEPT ![r] = Head(toRank[r]).buf[1]]
            /\ Receive(r)
    /\ pc' = [pc EXCEPT ![r] = "partitionColors"]
    /\ UNCHANGED <<config, apart, proccesses, maxNum, partition, colorIds, clusters,
                   dist, prev, generation, toRoot, lastBcast, exitVia>>

\* partitionColors: MPI_Comm_size, marshalling on the root, MPI_Scatterv, unmarshalling
PartitionColors(r) ==
    /\ pc[r] = "partitionColors"
    /\ r # ROOT => toRank[r] # << >>
    /\ LET mx      == ShardSize(r, nColors[r], worldSize)
           recvbuf == IF r = ROOT THEN ScatterChunk(ROOT, nColors[ROOT], worldSize)
                      ELSE Head(toRank[r]).buf
       IN  /\ proccesses' = [proccesses EXCEPT ![r] = worldSize]
           /\ maxNum' = [maxNum EXCEPT ![r] = mx]
           /\ dist' = [dist EXCEPT ![r] =
                          [i \in 0 .. mx - 1 |-> [j \in 0 .. k - 1 |-> 0]]]
           /\ partition' = [partition EXCEPT ![r] = UnmarshalPartition(recvbuf, mx)]
           /\ colorIds' = [colorIds EXCEPT ![r] = UnmarshalColorIds(recvbuf, mx)]
    /\ IF r = ROOT
       THEN LET m(z) == Msg("shard", ScatterChunk(z, nColors[ROOT], worldSize), << >>)
            IN  SendToOthers(m)
       ELSE Receive(r)
    /\ pc' = [pc EXCEPT ![r] = IF r = ROOT THEN "selectClusters"
                                ELSE "distributeCentroids"]
    /\ UNCHANGED <<config, apart, nColors, clusters, prev, generation, toRoot,
                   lastBcast, exitVia>>

\* selectClusters (root only): min(k, nColors) indices sampled without
\* replacement, then k centroids read through selectedColors[i]
SelectClusters ==
    /\ pc[ROOT] = "selectClusters"
    /\ \E S \in SUBSET samplePool : \E out \in SelectOutcomes :
          /\ Cardinality(S) = IF k <= Cardinality(samplePool) THEN k
                              ELSE Cardinality(samplePool)
          /\ clusters' = [clusters EXCEPT ![ROOT] =
                             IF out.fault THEN @ ELSE SelectedClusters(S, out.stray)]
          /\ pc' = [pc EXCEPT ![ROOT] = IF out.fault THEN "crashed"
                                        ELSE "distributeCentroids"]
    /\ UNCHANGED <<config, apart, nColors, proccesses, maxNum, partition, colorIds,
                   dist, prev, generation, toRank, toRoot, lastBcast, exitVia>>

\* mutant: the cap is tested with <=, one round too many
WithinCap_Inclusive(g) == g <= MAX_NUM_GENERATIONS

\* the for loop's condition: generation < MAX_NUM_GENERATIONS
WithinCap(g) == g < MAX_NUM_GENERATIONS

\* mutant: the loop forgets to count
NextGeneration_Stuck(g) == g

\* the for loop's increment: generation++
NextGeneration(g) == g + 1

\* mutant: a rank's MPI_Bcast returns without the root's data when none has
\* arrived, and the rank goes on with the centroids it has
DistributeCentroids_NoWait(r) ==
    /\ pc[r] \in {"distributeCentroids", "distributeCentroidsInLoop"}
    /\ IF r = ROOT
       THEN /\ LET m(z) == Msg("centroids", CentroidBuffer(clusters[ROOT]),
                               Centroids(clusters[ROOT]))
               IN  SendToOthers(m)
            /\ lastBcast' = [lastBcast EXCEPT ![r] = Centroids(clusters[ROOT])]
            /\ UNCHANGED clusters
       ELSE IF toRank[r] # << >>
            THEN /\ clusters' = [clusters EXCEPT ![r] =
                                    ReceiveCentroids(@, Head(toRank[r]).buf)]
                 /\ lastBcast' = [lastBcast EXCEPT ![r] = Head(toRank[r]).sent]
                 /\ Receive(r)
            ELSE UNCHANGED <<clusters, lastBcast, toRank>>
    /\ IF pc[r] = "distributeCentroids"
       THEN /\ pc' = [pc EXCEPT ![r] = "initPrev"]
            /\ UNCHANGED generation
       ELSE /\ pc' = [pc EXCEPT ![r] = "loopTest"]
            /\ generation' = [generation EXCEPT ![r] = NextGeneration(@)]
    /\ UNCHANGED <<config, apart, nColors, proccesses, maxNum, partition, colorIds,
                   dist, prev, toRoot, exitVia>>

\* distributeCentroids: called before the loop (line 86) and as the last
\* statement of the loop body (line 98, followed by generation++)
DistributeCentroids(r) ==
    /\ pc[r] \in {"distributeCentroids", "distributeCentroidsInLoop"}
    /\ IF r = ROOT
       THEN /\ LET m(z) == Msg("centroids", CentroidBuffer(clusters[ROOT]),
                               Centroids(clusters[ROOT]))
               IN  SendToOthers(m)
            /\ lastBcast' = [lastBcast EXCEPT ![r] = Centroids(clusters[ROOT])]
            /\ UNCHANGED clusters
       ELSE /\ toRank[r] # << >>
            /\ clusters' = [clusters EXCEPT ![r] =
                               ReceiveCentroids(@, Head(toRank[r]).buf)]
            /\ lastBcast' = [lastBcast EXCEPT ![r] = Head(toRank[r]).sent]
            /\ Receive(r)
    /\ IF pc[r] = "distributeCentroids"
       THEN /\ pc' = [pc EXCEPT ![r] = "initPrev"]
            /\ UNCHANGED generation
       ELSE /\ pc' = [pc EXCEPT ![r] = "loopTest"]
            /\ generation' = [generation EXCEPT ![r] = NextGeneration(@)]
    /\ UNCHANGED <<config, apart, nColors, proccesses, maxNum, partition, colorIds,
                   dist, prev, toRoot, exitVia>>

\* a start of the loop whose increment stops at 255 instead of wrapping
InitPrev_Saturating(r) ==
    /\ pc[r] = "initPrev"
    /\ prev' = [prev EXCEPT ![r] =
                   [Centroids(clusters[r]) EXCEPT
                       ![0][0] = IF @ = ByteRange - 1 THEN @ ELSE @ + 1]]
    /\ generation' = [generation EXCEPT ![r] = 0]
    /\ pc' = [pc EXCEPT ![r] = "loopTest"]
    /\ UNCHANGED <<config, apart, nColors, proccesses, maxNum, partition, colorIds,
                   clusters, dist, toRank, toRoot, lastBcast, exitVia>>

\* a start of the loop where only the root perturbs prev
InitPrev_RootOnly(r) ==
    /\ pc[r] = "initPrev"
    /\ prev' = [prev EXCEPT ![r] =
                   IF r = ROOT
                   THEN [Centroids(clusters[r]) EXCEPT ![0][0] = Byte(@ + 1)]
                   ELSE Centroids(clusters[r])]
    /\ generation' = [generation EXCEPT ![r] = 0]
    /\ pc' = [pc EXCEPT ![r] = "loopTest"]
    /\ UNCHANGED <<config, apart, nColors, proccesses, maxNum, partition, colorIds,
                   clusters, dist, toRank, toRoot, lastBcast, exitVia>>

\* Clusters prev = clusters; ++prev[0].centroid[0]; generation = 0
\* (prev keeps the centroids only: operator== reads nothing else of it)
InitPrev(r) ==
    /\ pc[r] = "initPrev"
    /\ prev' = [prev EXCEPT ![r] =
                   [Centroids(clusters[r]) EXCEPT ![0][0] = Byte(@ + 1)]]
    /\ generation' = [generation EXCEPT ![r] = 0]
    /\ pc' = [pc EXCEPT ![r] = "loopTest"]
    /\ UNCHANGED <<config, apart, nColors, proccesses, maxNum, partition, colorIds,
                   clusters, dist, toRank, toRoot, lastBcast, exitVia>>

\* generation < MAX_NUM_GENERATIONS, then if (prev == clusters) break
LoopTest(r) ==
    /\ pc[r] = "loopTest"
    /\ IF WithinCap(generation[r])
       THEN IF prev[r] = Centroids(clusters[r])
            THEN /\ pc' = [pc EXCEPT ![r] = "collectClusterAssignments"]
                 /\ exitVia' = [exitVia EXCEPT ![r] = "CONVERGED"]
            ELSE /\ pc' = [pc EXCEPT ![r] = "updateDistances"]
                 /\ UNCHANGED exitVia
       ELSE /\ pc' = [pc EXCEPT ![r] = "collectClusterAssignments"]
            /\ exitVia' = [exitVia EXCEPT ![r] = "CAPPED"]
    /\ UNCHANGED <<config, apart, nColors, proccesses, maxNum, partition, colorIds,
                   clusters, dist, prev, generation, toRank, toRoot, lastBcast>>

\* updateDistances(); prev = clusters;
UpdateDistances(r) ==
    /\ pc[r] = "updateDistances"
    /\ dist' = [dist EXCEPT ![r] = Distances(clusters[r], partition[r], maxNum[r])]
    /\ prev' = [prev EXCEPT ![r] = Centroids(clusters[r])]
    /\ pc' = [pc EXCEPT ![r] = "updateClusters"]
    /\ UNCHANGED <<config, apart, nColors, proccesses, maxNum, partition, colorIds,
                   clusters, generation, toRank, toRoot, lastBcast, exitVia>>

UpdateClusters(r) ==
    /\ pc[r] = "updateClusters"
    /\ clusters' = [clusters EXCEPT ![r] =
                       updateClusters(partition[r], dist[r], maxNum[r])]
    /\ pc' = [pc EXCEPT ![r] = "combineClusters"]
    /\ UNCHANGED <<config, apart, nColors, proccesses, maxNum, partition, colorIds,
                   dist, prev, generation, toRank, toRoot, lastBcast, exitVia>>

\* combineClusters: MPI_Gather of every rank's sendbuf, then the root's merge
CombineClusters(r) ==
    /\ pc[r] = "combineClusters"
    /\ IF r = ROOT
       THEN /\ \A z \in Others : toRoot[z] # << >>
            /\ LET sendCount == k * (d + 1)
                   recvbuf == [x \in 0 .. proccesses[ROOT] * sendCount - 1 |->
                                  LET z == x \div sendCount
                                  IN  IF z = ROOT
                                      THEN CombineSendbuf(clusters[ROOT])[x % sendCount]
                                      ELSE Head(toRoot[z]).buf[x % sendCount]]
               IN  clusters' = [clusters EXCEPT ![ROOT] =
                                   MergeClusters(@, recvbuf, proccesses[ROOT])]
            /\ toRoot' = [z \in Ranks |-> IF z = ROOT THEN toRoot[z] ELSE Tail(toRoot[z])]
       ELSE /\ toRoot' = [toRoot EXCEPT ![r] =
                             Append(@, Msg("report", CombineSendbuf(clusters[r]), << >>))]
            /\ UNCHANGED clusters
    /\ pc' = [pc EXCEPT ![r] = "distributeCentroidsInLoop"]
    /\ UNCHANGED <<config, apart, nColors, proccesses, maxNum, partition, colorIds,
                   dist, prev, generation, toRank, lastBcast, exitVia>>

\* mutant: the root's MPI_Gatherv returns without the parts that have not
\* arrived (a timeout with a partial result)
CollectClusterAssignments_NoWait(r) ==
    /\ pc[r] = "collectClusterAssignments"
    /\ IF r = ROOT
       THEN /\ LET msgs == [z \in Ranks |->
                               IF z = ROOT
                               THEN CollectSendbuf(clusters[ROOT], colorIds[ROOT],
                                                   maxNum[ROOT])
                               ELSE IF toRoot[z] # << >> THEN Head(toRoot[z]).buf
                               ELSE << >>]
                   recvbuf == GatherRecvbuf(msgs, nColors[ROOT], proccesses[ROOT])
               IN  clusters' = [clusters EXCEPT ![ROOT] =
                                   Deserialize(@, recvbuf, proccesses[ROOT])]
            /\ toRoot' = [z \in Ranks |->
                             IF z = ROOT \/ toRoot[z] = << >> THEN toRoot[z]
                             ELSE Tail(toRoot[z])]
       ELSE /\ toRoot' = [toRoot EXCEPT ![r] =
                             Append(@, Msg("assignments",
                                           CollectSendbuf(clusters[r], colorIds[r],
                                                          maxNum[r]), << >>))]
            /\ UNCHANGED clusters
    /\ colorIds' = [colorIds EXCEPT ![r] = << >>]
    /\ partition' = [partition EXCEPT ![r] = << >>]
    /\ pc' = [pc EXCEPT ![r] = "done"]
    /\ UNCHANGED <<config, apart, nColors, proccesses, maxNum, dist, prev, generation,
                   toRank, lastBcast, exitVia>>

\* collectClusterAssignments: MPI_Gatherv, the root's deserialization; then
\* fitWork drops colorIds and partition and returns
CollectClusterAssignments(r) ==
    /\ pc[r] = "collectClusterAssignments"
    /\ IF r = ROOT
       THEN /\ \A z \in Others : toRoot[z] # << >>
            /\ LET msgs == [z \in Ranks |->
                               IF z = ROOT
                               THEN CollectSendbuf(clusters[ROOT], colorIds[ROOT],
                                                   maxNum[ROOT])
                               ELSE Head(toRoot[z]).buf]
                   recvbuf == GatherRecvbuf(msgs, nColors[ROOT], proccesses[ROOT])
               IN  clusters' = [clusters EXCEPT ![ROOT] =
                                   Deserialize(@, recvbuf, proccesses[ROOT])]
            /\ toRoot' = [z \in Ranks |-> IF z = ROOT THEN toRoot[z] ELSE Tail(toRoot[z])]
       ELSE /\ toRoot' = [toRoot EXCEPT ![r] =
                             Append(@, Msg("assignments",
                                           CollectSendbuf(clusters[r], colorIds[r],
                                                          maxNum[r]), << >>))]
            /\ UNCHANGED clusters
    /\ colorIds' = [colorIds EXCEPT ![r] = << >>]
    /\ partition' = [partition EXCEPT ![r] = << >>]
    /\ pc' = [pc EXCEPT ![r] = "done"]
    /\ UNCHANGED <<config, apart, nColors, proccesses, maxNum, dist, prev, generation,
                   toRank, lastBcast, exitVia>>

Next ==
    \/ \E r \in Ranks :
          \/ BroadcastSize(r)
          \/ PartitionColors(r)
          \/ DistributeCentroids(r)
          \/ InitPrev(r)
          \/ LoopTest(r)
          \/ UpdateDistances(r)
          \/ UpdateClusters(r)
          \/ CombineClusters(r)
          \/ CollectClusterAssignments(r)
    \/ SelectClusters

Spec == Init /\ [][Next]_vars

SpecOsc == InitOsc /\ [][Next]_vars

SpecBig == InitBig /\ [][Next]_vars

SpecLong == InitLong /\ [][Next]_vars

SpecBigTwo == InitBigTwo /\ [][Next]_vars

SpecWide == InitWide /\ [][Next]_vars

SpecEdge == InitEdge /\ [][Next]_vars

SpecGivenSample == InitGivenSample /\ [][Next]_vars

SpecInvalid == InitInvalid /\ [][Next]_vars

\* the merge loop's body applied to one of the reports not merged yet
MergeStep ==
    /\ \E z \in todo :
          /\ acc' = MergeReport(acc, reports[z])
          /\ todo' = todo \ {z}
    /\ UNCHANGED <<config, reports, pc, nColors, proccesses, maxNum, partition,
                   colorIds, clusters, dist, prev, generation, toRank, toRoot,
                   lastBcast, exitVia, heap, bitonic,
                   sums>>

SpecMerge == InitMerge /\ [][MergeStep]_vars

SpecMergeEdge == InitMergeEdge /\ [][MergeStep]_vars

\* everything one rank's process can do; each process keeps running
RankStep(r) ==
    /\ r \in Ranks
    /\ \/ BroadcastSize(r)
       \/ PartitionColors(r)
       \/ r = ROOT /\ SelectClusters
       \/ DistributeCentroids(r)
       \/ InitPrev(r)
       \/ LoopTest(r)
       \/ UpdateDistances(r)
       \/ UpdateClusters(r)
       \/ CombineClusters(r)
       \/ CollectClusterAssignments(r)

\* the inputs of the fair runs: the oscillating datasets, which run to the cap,
\* and the datasets of one or two elements, which converge
FairInputs ==
    OscInputs \cup {in \in SmallInputs : Cardinality(DOMAIN in.elements) <= 2}

InitFair == \E in \in FairInputs : InitFrom(in) /\ NoMerge /\ NoHeap /\ NoBitonic /\ NoSums

FairSpec ==
    InitFair /\ [][Next]_vars /\ \A r \in 0 .. MaxP - 1 : WF_vars(RankStep(r))

(* ============================ properties ============================== *)
PastPartition(r) == pc[r] \notin {"broadcastSize", "partitionColors"}
AllPastPartition == \A r \in Ranks : PastPartition(r)

\* the rank holds the membership lists of its latest updateClusters
HasAssigned(r) ==
    \/ pc[r] \in {"combineClusters", "distributeCentroidsInLoop",
                  "collectClusterAssignments"}
    \/ pc[r] \in {"loopTest", "updateDistances", "updateClusters"} /\ generation[r] >= 1

\* ... and prev[r] still holds the centroids that assignment was made against
AssignedAgainstPrev(r) == HasAssigned(r) /\ pc[r] # "updateClusters"

ClusterSizes(r) == [i \in 0 .. k - 1 |-> Len(clusters[r][i].elements)]
LocalTotal(r) == SumTo(ClusterSizes(r), k)
Members(r, i) == {clusters[r][i].elements[e] : e \in 1 .. Len(clusters[r][i].elements)}

\* C1: after partitionColors, with n >= P, every rank r < P-1 has maxNum = n/P,
\* rank P-1 has maxNum = n - (P-1)*(n/P), and the shard sizes sum to n.
C1_ShardSizes ==
    n >= worldSize =>
        /\ \A r \in Ranks :
              PastPartition(r) =>
                  maxNum[r] = IF r < worldSize - 1 THEN n \div worldSize
                              ELSE n - (worldSize - 1) * (n \div worldSize)
        /\ AllPastPartition => SumTo(maxNum, worldSize) = n

\* an uneven split has been made: 3 elements over 2 ranks
C1_Witness ==
    /\ worldSize = 2 /\ n = 3 /\ AllPastPartition
    /\ maxNum[0] = 1 /\ maxNum[1] = 2

ShardStart(r) == r * (n \div worldSize)

\* C2: after partitionColors, on every rank r and for every local position
\* i < maxNum, colorIds[i] is the global index r*(n/P)+i and partition[i] is
\* elements[r*(n/P)+i], whatever the dataset size.
C2_GlobalIdentity ==
    \A r \in Ranks :
        PastPartition(r) /\ pc[r] # "done" =>
            \A i \in 0 .. maxNum[r] - 1 :
                /\ colorIds[r][i] = ShardStart(r) + i
                /\ partition[r][i] = elements[ShardStart(r) + i]

\* C5: after every updateClusters each local element of a rank is in exactly one
\* of its clusters, its cluster sizes sum to its maxNum, and over all ranks to n.
C5_ExactlyOneCluster ==
    /\ \A r \in Ranks :
          HasAssigned(r) =>
              /\ \A x \in 0 .. maxNum[r] - 1 :
                    Cardinality({i \in 0 .. k - 1 : x \in Members(r, i)}) = 1
              /\ \A i \in 0 .. k - 1 :
                    /\ Members(r, i) \subseteq 0 .. maxNum[r] - 1
                    /\ Cardinality(Members(r, i)) = Len(clusters[r][i].elements)
              /\ LocalTotal(r) = maxNum[r]
    /\ (\A r \in Ranks : HasAssigned(r)) =>
           SumTo([r \in Ranks |-> LocalTotal(r)], worldSize) = n

\* two ranks have assigned their shards, and two clusters have members
C5_Witness ==
    /\ worldSize = 2 /\ k = 2 /\ n = 3
    /\ \A r \in Ranks : pc[r] = "combineClusters"
    /\ \E r \in Ranks : \A i \in 0 .. k - 1 : clusters[r][i].elements # << >>

\* C6: every local element is in a cluster whose centroid, as last broadcast and
\* as used by updateDistances, is nearest to it; of several nearest centroids the
\* lowest index has it.
C6_NearestLowestIndex ==
    \A r \in Ranks :
        /\ pc[r] = "updateClusters" => prev[r] = lastBcast[r]
        /\ AssignedAgainstPrev(r) =>
              \A i \in 0 .. k - 1 : \A x \in Members(r, i) :
                  LET own == distance(prev[r][i], partition[r][x])
                  IN  \A j \in 0 .. k - 1 :
                          LET other == distance(prev[r][j], partition[r][x])
                          IN  /\ own <= other
                              /\ j < i => own < other

\* an element at the same distance from two different centroids has been assigned
C6_Witness ==
    \E r \in Ranks :
        /\ AssignedAgainstPrev(r) /\ k = 2
        /\ prev[r][0] # prev[r][1]
        /\ \E x \in Members(r, 0) :
              distance(prev[r][0], partition[r][x]) = distance(prev[r][1], partition[r][x])

\* C7: once distributeCentroids has returned on a rank, its k centroids are, in
\* every dimension, the root's centroids at the time of that broadcast, and they
\* stay so through updateDistances until updateClusters rebuilds them.
C7_CentroidsAsBroadcast ==
    \A r \in Ranks :
        pc[r] \in {"initPrev", "loopTest", "updateDistances", "updateClusters"} =>
            Centroids(clusters[r]) = lastBcast[r]

\* a non-root rank holds a second broadcast whose centroids differ from each other
\* and across dimensions
C7_Witness ==
    /\ worldSize = 2 /\ k = 2
    /\ pc[1] = "loopTest" /\ generation[1] >= 1
    /\ clusters[1][0].centroid # clusters[1][1].centroid
    /\ clusters[1][0].centroid[0] # clusters[1][0].centroid[1]
    /\ clusters[1][1].centroid[0] # clusters[1][0].centroid[1]

\* what rank z reports for cluster i in the round the root has just combined:
\* the root's own local centroid is the one updateClusters left before the merge
LocalReport(z, i) ==
    IF z = ROOT
    THEN updateClusters(partition[ROOT], dist[ROOT], maxNum[ROOT])[i]
    ELSE clusters[z][i]

RECURSIVE FoldOnceFrom(_, _, _, _)
FoldOnceFrom(centroid, count, i, z) ==
    IF z >= worldSize THEN centroid
    ELSE LET rep == LocalReport(z, i)
         IN  FoldOnceFrom(updateCentroid(centroid, count, rep.centroid, Len(rep.elements)),
                          count + Len(rep.elements), i, z + 1)

\* every report, the root's included, enters the incremental mean once
FoldOnce(i) == FoldOnceFrom(ZeroElement, 0, i, 0)

TotalCount(i) == SumTo([z \in Ranks |-> Len(clusters[z][i].elements)], worldSize)

\* C3: the root's centroid of cluster i after combineClusters is the fold of the
\* P reports (centroid_w, count_w) through updateCentroid, each report weighted by
\* its member count exactly once.  (Clusters without any member are left out:
\* their mean is not defined.)
C3_EachReportOnce ==
    pc[ROOT] = "distributeCentroidsInLoop" =>
        \A i \in 0 .. k - 1 :
            TotalCount(i) > 0 => clusters[ROOT][i].centroid = FoldOnce(i)

AllAfterRound ==
    /\ \A r \in Ranks : pc[r] = "loopTest" /\ generation[r] = generation[ROOT]
    /\ generation[ROOT] >= 1

\* C4: a cluster that got no element from any rank in a round has, after that
\* round's merge and broadcast, the centroid it had before the round.
C4_EmptyClusterKeepsCentroid ==
    AllAfterRound =>
        \A i \in 0 .. k - 1 :
            TotalCount(i) = 0 =>
                \A r \in Ranks : clusters[r][i].centroid = prev[r][i]

Finished(r) == pc[r] \in {"collectClusterAssignments", "done"}

\* C8: for every round g from 1 to MAX_NUM_GENERATIONS, if the centroids after
\* round g's broadcast are the centroids round g started from, fitWork leaves the
\* loop by the equality test (CONVERGED) and not by the cap (CAPPED).
C8_EqualRoundEndsConverged ==
    \A r \in Ranks :
        Finished(r) /\ generation[r] >= 1 /\ prev[r] = Centroids(clusters[r]) =>
            exitVia[r] = "CONVERGED"

\* C9: a run whose consecutive rounds never produce the same centroids runs
\* MAX_NUM_GENERATIONS rounds, not one more or less, and ends by the cap.
C9_CapAtMaxGenerations ==
    \A r \in Ranks :
        /\ generation[r] <= MAX_NUM_GENERATIONS
        /\ Finished(r) /\ prev[r] # Centroids(clusters[r]) =>
               generation[r] = MAX_NUM_GENERATIONS /\ exitVia[r] = "CAPPED"
        /\ exitVia[r] = "CAPPED" => generation[r] = MAX_NUM_GENERATIONS

\* two ranks have oscillated to the cap and returned
C9_Witness ==
    /\ worldSize = 2
    /\ \A r \in Ranks :
          /\ pc[r] = "done" /\ exitVia[r] = "CAPPED"
          /\ generation[r] = MAX_NUM_GENERATIONS
          /\ prev[r] # Centroids(clusters[r])

AllDone ==
    \A r \in Ranks :
        /\ pc[r] = "done"
        /\ exitVia[r] \in {"CONVERGED", "CAPPED"}
        /\ generation[r] <= MAX_NUM_GENERATIONS

\* C10: when every rank keeps taking steps, every rank's fitWork leaves the loop
\* (by equality or by the cap) after at most MAX_NUM_GENERATIONS rounds and
\* completes collectClusterAssignments.
C10_EveryRankFinishes == <>AllDone

\* both ways out have been taken to the end
C10_Witness ==
    /\ AllDone /\ worldSize = 2
    /\ exitVia[ROOT] = "CAPPED" /\ generation[ROOT] = MAX_NUM_GENERATIONS

\* the rank whose shard holds global index x, and x's position in that shard
Owner(x) ==
    IF n \div worldSize = 0 THEN worldSize - 1
    ELSE IF x \div (n \div worldSize) < worldSize - 1 THEN x \div (n \div worldSize)
    ELSE worldSize - 1

LocalIndex(x) == x - ShardStart(Owner(x))

\* how often identity x is stored in the root's clusters
Occurrences(x) ==
    SumTo([i \in 0 .. k - 1 |->
              Cardinality({e \in 1 .. Len(clusters[ROOT][i].elements) :
                              clusters[ROOT][i].elements[e] = x})], k)

\* C11: after collectClusterAssignments on the root, every identity in the final
\* clusters is an index in 0..n-1, every index in 0..n-1 is stored exactly once
\* over the k clusters, and it is in the cluster its owning rank assigned it to.
C11_IdentityRoundTrip ==
    pc[ROOT] = "done" =>
        /\ \A i \in 0 .. k - 1 : Members(ROOT, i) \subseteq 0 .. n - 1
        /\ \A x \in 0 .. n - 1 :
              /\ Occurrences(x) = 1
              /\ x \in Members(ROOT, Closest(dist[Owner(x)][LocalIndex(x)]))

\* the number of collective operations rank r has returned from: the size
\* broadcast, the scatter, the first centroid broadcast, then a gather and a
\* centroid broadcast per round, then the final gather
Passed(r) ==
    CASE pc[r] = "broadcastSize" -> 0
      [] pc[r] = "partitionColors" -> 1
      [] pc[r] \in {"selectClusters", "distributeCentroids", "crashed"} -> 2
      [] pc[r] = "initPrev" -> 3
      [] pc[r] \in {"loopTest", "updateDistances", "updateClusters",
                    "combineClusters", "collectClusterAssignments"} ->
             3 + 2 * generation[r]
      [] pc[r] \in {"distributeCentroidsInLoop", "done"} -> 4 + 2 * generation[r]

\* rank r stands at (has entered) its next collective operation
AtCollective(r) ==
    pc[r] \in {"broadcastSize", "partitionColors", "distributeCentroids",
               "combineClusters", "distributeCentroidsInLoop",
               "collectClusterAssignments"}

\* the number of collective operations rank r has reached
Reached(r) == Passed(r) + (IF AtCollective(r) THEN 1 ELSE 0)

InAssignment(r) == pc[r] \in {"updateDistances", "updateClusters"}

MemberSum(r, i, j) ==
    SumTo([e \in 0 .. Len(clusters[r][i].elements) - 1 |->
              partition[r][clusters[r][i].elements[e + 1]][j]],
          Len(clusters[r][i].elements))

\* C13: after an assignment phase, on every rank, the centroid of every
\* non-empty local cluster equals in each dimension the arithmetic mean of its
\* members' values, truncated to an integer.
C13_CentroidIsTruncatedMean ==
    \A r \in Ranks :
        pc[r] = "combineClusters" =>
            \A i \in 0 .. k - 1 :
                Len(clusters[r][i].elements) > 0 =>
                    \A j \in Dims :
                        clusters[r][i].centroid[j]
                            = MemberSum(r, i, j) \div Len(clusters[r][i].elements)

\* the worked example: 8 one-dimensional elements (the other dimensions are 0),
\* two clusters, two ranks, every sample of two distinct indices
ExampleDataset ==
    ZeroBased(<<Pt(0, 0), Pt(1, 0), Pt(2, 0), Pt(3, 0),
                Pt(100, 0), Pt(101, 0), Pt(102, 0), Pt(103, 0)>>)

ExampleInputs ==
    {[P |-> 2, k |-> 2, elements |-> ExampleDataset, nanByte |-> b,
      samplePool |-> {}] : b \in NaNBytes}

InitExample == \E in \in ExampleInputs : InitFrom(in) /\ NoMerge /\ NoHeap /\ NoBitonic /\ NoSums

SpecExample == InitExample /\ [][Next]_vars

\* the mean of the dataset's values in dimension j over the index set S, truncated
TruncatedMean(S, j) ==
    SumTo([e \in 0 .. Cardinality(S) - 1 |-> elements[Ascending(S)[e + 1]][j]],
          Cardinality(S)) \div Cardinality(S)

\* C14: on the example, from every sample, the run ends CONVERGED with the
\* centroids settled after at most 2 rounds (a third round at most confirms
\* them), the final clusters are {0,1,2,3} and {4,5,6,7} (the elements 0..3 and
\* 100..103), and each final centroid is the truncated mean of its cluster.
C14_ExampleConverges ==
    pc[ROOT] = "done" =>
        /\ exitVia[ROOT] = "CONVERGED"
        /\ generation[ROOT] <= 3
        /\ {Members(ROOT, 0), Members(ROOT, 1)} = {0 .. 3, 4 .. 7}
        /\ \A i \in 0 .. k - 1 : \A j \in Dims :
              clusters[ROOT][i].centroid[j] = TruncatedMean(Members(ROOT, i), j)

\* what the example run yields: the clusters as expected, the centroids (0) and (100)
ExampleOutcome ==
    pc[ROOT] = "done" =>
        /\ exitVia[ROOT] = "CONVERGED"
        /\ generation[ROOT] <= 3
        /\ {Members(ROOT, 0), Members(ROOT, 1)} = {0 .. 3, 4 .. 7}
        /\ Centroids(clusters[ROOT]) \in {ZeroBased(<<Pt(0, 0), Pt(100, 0)>>),
                                         ZeroBased(<<Pt(100, 0), Pt(0, 0)>>)}

\* C15: with one cluster, on a non-empty dataset with P <= n, from every
\* initial centroid, the run ends CONVERGED with the centroid settled by round 1
\* (a second round at most confirms it), and the final centroid is in every
\* dimension the (truncated) mean of the whole dataset.
C15_SingleClusterIsMean ==
    (k = 1 /\ worldSize <= n /\ pc[ROOT] = "done") =>
        /\ exitVia[ROOT] = "CONVERGED"
        /\ generation[ROOT] <= 2
        /\ \A j \in Dims :
              clusters[ROOT][0].centroid[j] = TruncatedMean(0 .. n - 1, j)

\* what of C15 holds: the run converges and no third round is made
SingleClusterRounds ==
    (k = 1 /\ worldSize <= n /\ pc[ROOT] = "done") =>
        /\ exitVia[ROOT] = "CONVERGED"
        /\ generation[ROOT] \in {1, 2}

\* C16: with k > n no rank has begun a collective operation (the run has ended
\* with a configuration error at startup) and no round is executed.
C16_InvalidConfigurationRejected ==
    k > n => \A r \in Ranks : Passed(r) = 0 /\ toRank[r] = << >> /\ generation[r] = 0

RECURSIVE Orders(_)
\* the orders in which the reports of S can be merged
Orders(S) ==
    IF S = {} THEN {<< >>}
    ELSE UNION {{<<z>> \o o : o \in Orders(S \ {z})} : z \in S}

RECURSIVE MergeInOrder(_, _)
MergeInOrder(a, o) ==
    IF o = << >> THEN a
    ELSE MergeInOrder(MergeReport(a, reports[Head(o)]), Tail(o))

\* C17: merging the reports not merged yet into the cluster gives the same
\* centroid in whatever order they are merged.
C17_MergeOrderIndependent ==
    \A o1 \in Orders(todo) : \A o2 \in Orders(todo) :
        MergeInOrder(acc, o1).centroid = MergeInOrder(acc, o2).centroid

\* the merged size does not depend on the order
MergedSizeOrderIndependent ==
    \A o1 \in Orders(todo) : \A o2 \in Orders(todo) :
        MergeInOrder(acc, o1).clusterSize = MergeInOrder(acc, o2).clusterSize

\* C18: a step that merges report z with oldCount + newCount > 0 sets every
\* dimension i of the centroid to the integer part of
\* (centroid[i]*oldCount + newElement[i]*newCount) / (oldCount + newCount),
\* and leaves the reports (newElement and its count) as they were.
C18_UpdateCentroidFormula ==
    [][\A z \in todo :
          (todo' = todo \ {z} /\ acc.clusterSize + reports[z].size > 0) =>
              /\ \A i \in Dims :
                    acc'.centroid[i]
                        = (acc.centroid[i] * acc.clusterSize
                           + reports[z].centroid[i] * reports[z].size)
                          \div (acc.clusterSize + reports[z].size)
              /\ reports' = reports]_vars

\* a merge has been made whose mean was not an integer: (1,1) once and (2,0)
\* once give (1,0)
C18_Witness ==
    /\ todo # DOMAIN reports
    /\ acc = [centroid |-> Pt(1, 0), clusterSize |-> 2]
    /\ \E z \in DOMAIN reports \ todo : reports[z] = [centroid |-> Pt(2, 0), size |-> 1]

RECURSIVE SampleFrom(_, _, _)
\* c[i], ..., c[k-1] are the values of pairwise distinct indices outside used
SampleFrom(c, i, used) ==
    \/ i = k
    \/ \E x \in (0 .. n - 1) \ used :
          c[i] = elements[x] /\ SampleFrom(c, i + 1, used \cup {x})

\* c holds the values of k pairwise distinct indices of the dataset
IsSample(c) == SampleFrom(c, 0, {})

BeforeFirstAssignment(r) ==
    pc[r] \in {"initPrev", "loopTest", "updateDistances"} /\ generation[r] = 0

\* C19: what the root holds after selectClusters are the values of k pairwise
\* distinct indices in 0..n-1; no other rank selects (until the first broadcast
\* reaches it, it holds no centroid of its own); and every rank that stands
\* before its first assignment phase holds exactly the root's selection.
C19_InitialCentroidsSampled ==
    /\ pc[ROOT] = "distributeCentroids" => IsSample(Centroids(clusters[ROOT]))
    /\ \A r \in Others :
          pc[r] \in {"broadcastSize", "partitionColors", "distributeCentroids"} =>
              Centroids(clusters[r]) = [i \in 0 .. k - 1 |-> ZeroElement]
    /\ \A r \in Ranks :
          BeforeFirstAssignment(r) =>
              /\ IsSample(Centroids(clusters[r]))
              /\ Centroids(clusters[r]) = lastBcast[ROOT]

\* a rank other than the root stands before its first assignment phase with two
\* different centroids
C19_Witness ==
    /\ worldSize = 2 /\ k = 2
    /\ pc[1] = "updateDistances" /\ generation[1] = 0
    /\ clusters[1][0].centroid # clusters[1][1].centroid

\* C20: on every rank, what collectClusterAssignments is entered with and what
\* it leaves behind (on the root: what getClusters returns after fit) are the
\* centroids of the last broadcast the rank completed, whichever way the loop
\* was left.
C20_FinalCentroidsAsBroadcast ==
    \A r \in Ranks :
        pc[r] \in {"collectClusterAssignments", "done"} =>
            /\ exitVia[r] \in {"CONVERGED", "CAPPED"}
            /\ Centroids(clusters[r]) = lastBcast[r]
            /\ r # ROOT => lastBcast[r] = lastBcast[ROOT]

\* the root has returned from fit after a capped run with centroids that are
\* not all zero, its lists filled by the final gather
C20_Witness ==
    /\ worldSize = 2 /\ pc[ROOT] = "done" /\ exitVia[ROOT] = "CAPPED"
    /\ \E i \in 0 .. k - 1 : clusters[ROOT][i].centroid # ZeroElement
    /\ \E i \in 0 .. k - 1 : Len(clusters[ROOT][i].elements) >= 2

\* the same after a converged run
FinalCentroidsConverged ==
    /\ worldSize = 2 /\ pc[ROOT] = "done" /\ exitVia[ROOT] = "CONVERGED"
    /\ \E i \in 0 .. k - 1 : clusters[ROOT][i].centroid # ZeroElement

fitState ==
    <<config, pc, nColors, proccesses, maxNum, partition, colorIds, clusters,
      dist, prev, generation, toRank, toRoot, lastBcast, exitVia>>

NoFit ==
    InitFrom([P |-> 1, k |-> 1, elements |-> [i \in {0} |-> ZeroElement],
              nanByte |-> 0, samplePool |-> {}])

parent(childIndex) == (childIndex - 1) \div 2
left(parentIndex) == parentIndex * 2 + 1
right(parentIndex) == left(parentIndex) + 1
hasLeft(parentIndex, sz) == left(parentIndex) < sz
hasRight(parentIndex, sz) == right(parentIndex) < sz

Swap(arr, a, b) == [arr EXCEPT ![a] = arr[b], ![b] = arr[a]]

RECURSIVE percolateUp(_, _)
percolateUp(arr, index) ==
    IF index > 0 /\ arr[parent(index)] > arr[index]
    THEN percolateUp(Swap(arr, parent(index), index), parent(index))
    ELSE arr

\* the smaller child of index (the left one on a tie)
MinChild(arr, index, sz) ==
    IF hasRight(index, sz) /\ arr[right(index)] < arr[left(index)]
    THEN right(index)
    ELSE left(index)

RECURSIVE percolateDown(_, _, _)
percolateDown(arr, index, sz) ==
    IF hasLeft(index, sz) /\ arr[MinChild(arr, index, sz)] < arr[index]
    THEN percolateDown(Swap(arr, index, MinChild(arr, index, sz)),
                       MinChild(arr, index, sz), sz)
    ELSE arr

RECURSIVE HeapifyFrom(_, _, _)
\* for (int index = size / 2; index >= 0; index--) percolateDown(index);
HeapifyFrom(arr, index, sz) ==
    IF index < 0 THEN arr
    ELSE HeapifyFrom(percolateDown(arr, index, sz), index - 1, sz)

heapify(arr, sz) == HeapifyFrom(arr, sz \div 2, sz)

\* bool Heap::isValid()
isValid(arr, sz) == \A i \in 1 .. sz - 1 : arr[parent(i)] <= arr[i]

HeapValues == 0 .. MaxValue
HeapArrays == UNION {[0 .. m - 1 -> HeapValues] : m \in 0 .. MaxLen}

\* the bag of the first sz cells: how often each value occurs
BagOf(arr, sz) ==
    [v \in HeapValues |-> Cardinality({i \in 0 .. sz - 1 : arr[i] = v})]

BagMin(b) == CHOOSE v \in HeapValues : b[v] > 0 /\ \A w \in HeapValues : b[w] > 0 => v <= w

\* The cells at index >= capacity are not part of the allocation (they exist
\* only after a write past its end): other code owns that memory, so between
\* two looks at the heap such a cell can have taken any value (one cell per
\* look is enough: more of them change over several looks).
Observed(arr) ==
    {arr} \cup {[arr EXCEPT ![i] = v] :
                   i \in {c \in DOMAIN arr : c >= capacity /\ c < heapSize},
                   v \in HeapValues}

\* Heap::Heap(): the new array's cells are indeterminate and not read before
\* they are written (0 stands for them)
SimpleConstructor ==
    /\ heapPc = "new"
    /\ heap' = [heap EXCEPT !.size = 0,
                            !.capacity = INITIAL_CAPACITY,
                            !.data = [i \in 0 .. INITIAL_CAPACITY - 1 |-> 0],
                            !.queued = [v \in HeapValues |-> 0],
                            !.pc = "ready"]
    /\ UNCHANGED <<fitState, calc, bitonic, sums>>

\* Heap::Heap(const int *data, int size)
ArrayConstructor(a) ==
    /\ heapPc = "new"
    /\ heap' = [heap EXCEPT !.size = Cardinality(DOMAIN a),
                            !.capacity = Cardinality(DOMAIN a),
                            !.data = heapify(a, Cardinality(DOMAIN a)),
                            !.queued = BagOf(a, Cardinality(DOMAIN a)),
                            !.pc = "ready"]
    /\ UNCHANGED <<fitState, calc, bitonic, sums>>

\* Heap::Heap(const Heap &other) and Heap::operator= (the same statements): the
\* program goes on with a copy of the heap. The new array has capacity cells,
\* the first size of them copied; with size > capacity the copy reads and
\* writes outside both arrays.
CopyHeap ==
    /\ heapPc = "ready"
    /\ \E mem \in Observed(data) : \E fault \in BOOLEAN :
          /\ fault => heapSize > capacity
          /\ heap' = IF fault
                     THEN [heap EXCEPT !.pc = "crashed"]
                     ELSE [heap EXCEPT !.data =
                              [i \in 0 .. (IF heapSize > capacity THEN heapSize
                                           ELSE capacity) - 1 |->
                                  IF i < heapSize THEN mem[i] ELSE 0]]
    /\ UNCHANGED <<fitState, calc, bitonic, sums>>

\* Heap::enqueue: grow when full (capacity *= 2), data[size++] = newItem,
\* percolateUp(size - 1). With capacity 0 the doubled capacity is 0 again and
\* the write is past the end of the array: it faults or lands in memory the
\* heap does not own.
Enqueue(newItem) ==
    /\ heapPc = "ready"
    /\ heapSize < MaxSize
    /\ \E mem \in Observed(data) : \E fault \in BOOLEAN :
          LET cap2  == IF heapSize = capacity THEN capacity * 2 ELSE capacity
              grown == IF heapSize = capacity
                       THEN [i \in 0 .. cap2 - 1 |-> IF i < heapSize THEN mem[i] ELSE 0]
                       ELSE mem
              cells == [i \in DOMAIN grown \cup {heapSize} |->
                           IF i = heapSize THEN newItem ELSE grown[i]]
          IN  /\ fault => heapSize >= cap2
              /\ heap' = IF fault
                         THEN [heap EXCEPT !.capacity = cap2,
                                           !.pc = "crashed",
                                           !.thrown = ""]
                         ELSE [heap EXCEPT !.capacity = cap2,
                                           !.data = percolateUp(cells, heapSize),
                                           !.size = heapSize + 1,
                                           !.queued = [queued EXCEPT ![newItem] = @ + 1],
                                           !.thrown = ""]
    /\ UNCHANGED <<fitState, calc, bitonic, sums>>

\* Heap::peek
Peek ==
    /\ heapPc = "ready"
    /\ IF heapSize = 0
       THEN heap' = [heap EXCEPT !.thrown = "empty queue"]
       ELSE \E mem \in Observed(data) :
                heap' = [heap EXCEPT !.thrown = "", !.ret = mem[0], !.data = mem]
    /\ UNCHANGED <<fitState, calc, bitonic, sums>>

\* a dequeue that returns 0 from an empty heap instead of throwing
Dequeue_SilentOnEmpty ==
    /\ heapPc = "ready"
    /\ IF heapSize = 0
       THEN heap' = [heap EXCEPT !.thrown = "", !.ret = 0]
       ELSE \E mem \in Observed(data) :
                heap' = [heap EXCEPT
                            !.thrown = "",
                            !.ret = mem[0],
                            !.size = heapSize - 1,
                            !.data = percolateDown([mem EXCEPT ![0] = mem[heapSize - 1]],
                                                   0, heapSize - 1),
                            !.queued = [queued EXCEPT ![BagMin(queued)] = @ - 1]]
    /\ UNCHANGED <<fitState, calc, bitonic, sums>>

\* Heap::dequeue: ret = peek(); data[0] = data[--size]; percolateDown(ROOT)
Dequeue ==
    /\ heapPc = "ready"
    /\ IF heapSize = 0
       THEN heap' = [heap EXCEPT !.thrown = "empty queue"]
       ELSE \E mem \in Observed(data) :
                heap' = [heap EXCEPT
                            !.thrown = "",
                            !.ret = mem[0],
                            !.size = heapSize - 1,
                            !.data = percolateDown([mem EXCEPT ![0] = mem[heapSize - 1]],
                                                   0, heapSize - 1),
                            !.queued = [queued EXCEPT ![BagMin(queued)] = @ - 1]]
    /\ UNCHANGED <<fitState, calc, bitonic, sums>>

InitHeap ==
    /\ NoFit /\ NoMerge /\ NoBitonic /\ NoSums
    /\ heap = [data |-> << >>, size |-> 0, capacity |-> 0, pc |-> "new",
               ret |-> 0, thrown |-> "", queued |-> << >>]

NextHeap ==
    \/ SimpleConstructor
    \/ \E a \in HeapArrays : ArrayConstructor(a)
    \/ CopyHeap
    \/ \E newItem \in HeapValues : Enqueue(newItem)
    \/ Peek
    \/ Dequeue

SpecHeap == InitHeap /\ [][NextHeap]_vars

\* C22: on a non-empty heap, peek returns the minimum of the items currently
\* in the queue, and dequeue returns that same value and removes exactly one
\* occurrence of it (so successive dequeues return non-decreasing values).
C22_DequeueReturnsMinimum ==
    [][(heapPc = "ready" /\ heapSize > 0) =>
           /\ Peek => ret' = BagMin(queued)
           /\ Dequeue =>
                 /\ ret' = BagMin(queued)
                 /\ BagOf(data', heapSize') = [queued EXCEPT ![BagMin(queued)] = @ - 1]]_vars

\* the same for the heaps whose array was allocated with room (every heap but
\* the one made by the all-at-once constructor from no items)
DequeueReturnsMinimumWithRoom ==
    [][(heapPc = "ready" /\ heapSize > 0 /\ capacity > 0) =>
           /\ Peek => ret' = BagMin(queued)
           /\ Dequeue =>
                 /\ ret' = BagMin(queued)
                 /\ BagOf(data', heapSize') = [queued EXCEPT ![BagMin(queued)] = @ - 1]]_vars

\* C23: the order invariant isValid checks (data[parent(i)] <= data[i] for
\* 0 < i < size) holds after the all-at-once constructor on any array and after
\* any sequence of enqueue and dequeue.
C23_HeapOrderInvariant ==
    heapPc = "ready" => isValid(data, heapSize)

\* the same for the heaps whose array was allocated with room
HeapOrderInvariantWithRoom ==
    (heapPc = "ready" /\ capacity > 0) => isValid(data, heapSize)

\* C24: peek and dequeue on an empty heap fail with invalid_argument("empty
\* queue") and leave the heap unchanged: the size stays 0 and no element is
\* read (ret) or written (data).
C24_EmptyQueueThrows ==
    [][(heapPc = "ready" /\ heapSize = 0 /\ (Peek \/ Dequeue)) =>
           /\ thrown' = "empty queue"
           /\ heapSize' = 0
           /\ UNCHANGED <<data, capacity, ret, queued, heapPc>>]_vars

\* an empty heap that has just refused a peek or a dequeue, after items had
\* been through it
C24_Witness ==
    /\ heapPc = "ready"
    /\ heapSize = 0
    /\ thrown = "empty queue"
    /\ capacity = INITIAL_CAPACITY
    /\ ret = MaxValue

(* ===== class Bitonic (bitonic_loops.cpp) ===== *)

\* i ^ j and i & k on non-negative ints, bit by bit
RECURSIVE BitXor(_, _)
BitXor(a, b) ==
    IF a = 0 /\ b = 0 THEN 0
    ELSE (((a % 2) + (b % 2)) % 2) + 2 * BitXor(a \div 2, b \div 2)

RECURSIVE BitAnd(_, _)
BitAnd(a, b) ==
    IF a = 0 \/ b = 0 THEN 0
    ELSE ((a % 2) * (b % 2)) + 2 * BitAnd(a \div 2, b \div 2)

\* n(data->size())
sortN == Cardinality(DOMAIN sortData)

\* a loop body that orders every pair ascending, whatever i & k is
CompareExchange_AscendingOnly(arr, i, j, kk) ==
    LET ixj == BitXor(i, j)
    IN  IF ixj > i /\ arr[i] > arr[ixj] THEN Swap(arr, i, ixj) ELSE arr

\* the body of the i loop: compare data[i] with data[i ^ j] when i ^ j > i,
\* ascending where i & k is 0 and descending where it is not
CompareExchange(arr, i, j, kk) ==
    LET ixj == BitXor(i, j)
        asc == IF ixj > i /\ BitAnd(i, kk) = 0 /\ arr[i] > arr[ixj]
               THEN Swap(arr, i, ixj) ELSE arr
    IN  IF ixj > i /\ BitAnd(i, kk) # 0 /\ asc[i] < asc[ixj]
        THEN Swap(asc, i, ixj) ELSE asc

IsPowerOfTwo(m) == \E e \in 0 .. m : 2 ^ e = m

SortSizes == {m \in 1 .. MaxSortLen : IsPowerOfTwo(m)}

SortInputs == UNION {[0 .. m - 1 -> 0 .. MaxSortValue] : m \in SortSizes}

\* Bitonic bitonic(&data); bitonic.sort() about to start, k = 2
InitBitonic ==
    /\ NoFit /\ NoMerge /\ NoHeap /\ NoSums
    /\ \E v \in SortInputs :
          bitonic = [data |-> v, input |-> v, k |-> 2, j |-> 0, i |-> 0,
                     pc |-> "forK"]

\* for (int k = 2; k <= n; k *= 2): the test, then j = k / 2
ForK ==
    /\ sortPc = "forK"
    /\ bitonic' = IF sortK <= sortN
                  THEN [bitonic EXCEPT !.j = sortK \div 2, !.pc = "forJ"]
                  ELSE [bitonic EXCEPT !.pc = "done"]
    /\ UNCHANGED <<fitState, calc, heap, sums>>

\* for (int j = k / 2; j > 0; j /= 2): the test, then i = 0; at its end k *= 2
ForJ ==
    /\ sortPc = "forJ"
    /\ bitonic' = IF sortJ > 0
                  THEN [bitonic EXCEPT !.i = 0, !.pc = "forI"]
                  ELSE [bitonic EXCEPT !.k = sortK * 2, !.pc = "forK"]
    /\ UNCHANGED <<fitState, calc, heap, sums>>

\* for (int i = 0; i < n; i++): the test and one body; at its end j /= 2
ForI ==
    /\ sortPc = "forI"
    /\ bitonic' = IF sortI < sortN
                  THEN [bitonic EXCEPT
                           !.data = CompareExchange(sortData, sortI, sortJ, sortK),
                           !.i = sortI + 1]
                  ELSE [bitonic EXCEPT !.j = sortJ \div 2, !.pc = "forJ"]
    /\ UNCHANGED <<fitState, calc, heap, sums>>

NextBitonic == ForK \/ ForJ \/ ForI

SpecBitonic == InitBitonic /\ [][NextBitonic]_vars

\* number of cells of arr holding v
CountOf(arr, v) == Cardinality({i \in DOMAIN arr : arr[i] = v})

\* C25: Bitonic::sort on a container whose size is a power of two leaves the
\* data in ascending order and a permutation of the input, for every content.
C25_BitonicSorts ==
    sortPc = "done" =>
        /\ \A i \in DOMAIN sortData :
              (i + 1) \in DOMAIN sortData => sortData[i] <= sortData[i + 1]
        /\ DOMAIN sortData = DOMAIN sortInput
        /\ \A v \in 0 .. MaxSortValue : CountOf(sortData, v) = CountOf(sortInput, v)

\* a sort of the largest size that had to move elements
C25_Witness ==
    /\ sortPc = "done"
    /\ sortN = MaxSortLen
    /\ sortData # sortInput
    /\ sortInput[0] = MaxSortValue
    /\ sortInput[MaxSortLen - 1] = 0

(* ===== KMeansMPI::fitWork, the loop decision ===== *)

\* what the test at the head of the loop (lines 89-92) is about to decide on rank r
Decision(r) ==
    IF ~ WithinCap(generation[r]) THEN "CAPPED"
    ELSE IF prev[r] = Centroids(clusters[r]) THEN "CONVERGED"
    ELSE "continue"

InLoopBody(r) ==
    pc[r] \in {"updateDistances", "updateClusters", "combineClusters",
               "distributeCentroidsInLoop"}

LeftLoop(r) == pc[r] \in {"collectClusterAssignments", "done"}

\* what rank q decided in its current generation, once past the test
Taken(q) == IF LeftLoop(q) THEN exitVia[q] ELSE "continue"

\* C26: in every generation all workers take the same loop decision and leave
\* the loop in the same generation, so every collective is entered by all of
\* them the same number of times and nothing sent is left unreceived.
C26_SameLoopDecision ==
    /\ \A r, q \in Ranks :
          (pc[r] = "loopTest" /\ generation[q] = generation[r]) =>
              /\ pc[q] = "loopTest" => Decision(q) = Decision(r)
              /\ (InLoopBody(q) \/ LeftLoop(q)) => Taken(q) = Decision(r)
    /\ \A r, q \in Ranks :
          (pc[r] = "loopTest" /\ generation[q] > generation[r]) =>
              Decision(r) = "continue"
    /\ \A r, q \in Ranks :
          (LeftLoop(r) /\ LeftLoop(q)) =>
              /\ exitVia[r] = exitVia[q]
              /\ generation[r] = generation[q]
    /\ (\A r \in Ranks : pc[r] = "done") =>
          \A r \in Ranks : toRank[r] = << >> /\ toRoot[r] = << >>

\* two workers have left the loop by the same decision after more than one
\* round and have returned
C26_Witness ==
    /\ worldSize = 2
    /\ \A r \in Ranks : pc[r] = "done"
    /\ generation[ROOT] >= 2
    /\ exitVia[1] = "CONVERGED"

\* element g is closest to final centroid i, and to none of a lower index as close
NearestIs(g, i) ==
    \A j \in 0 .. k - 1 :
        LET di == distance(clusters[ROOT][i].centroid, elements[g])
            dj == distance(clusters[ROOT][j].centroid, elements[g])
        IN  /\ di <= dj
            /\ j < i => di < dj

\* C27: when the loop exits by convergence, every element the coordinator
\* holds in final cluster i has final centroid i at minimum distance among the
\* k final centroids, the lowest index winning a tie.
C27_MembershipMatchesCentroids ==
    (pc[ROOT] = "done" /\ exitVia[ROOT] = "CONVERGED") =>
        \A i \in 0 .. k - 1 : \A g \in Members(ROOT, i) : NearestIs(g, i)

\* a converged run of two workers where an element is as close to the second
\* final centroid as to the first and sits in the first cluster
ConvergedWithTie ==
    /\ pc[ROOT] = "done"
    /\ exitVia[ROOT] = "CONVERGED"
    /\ worldSize = 2
    /\ k = 2
    /\ \E g \in Members(ROOT, 0) :
          distance(clusters[ROOT][0].centroid, elements[g])
              = distance(clusters[ROOT][1].centroid, elements[g])
    /\ Members(ROOT, 1) # {}

(* ===== the member count on the wire ===== *)

\* the root's merge as the claim has it: it starts from its own cluster and
\* takes every rank's centroid with the weight s mod 256 of its s members
\* (reps[z] is rank z's local cluster)
RECURSIVE FoldBytesFrom(_, _, _, _)
FoldBytesFrom(centroid, count, reps, z) ==
    IF z >= worldSize THEN centroid
    ELSE LET w == Len(reps[z].elements) % ByteRange
         IN  FoldBytesFrom(updateCentroid(centroid, count, reps[z].centroid, w),
                           count + w, reps, z + 1)

FoldBytes(reps) ==
    FoldBytesFrom(reps[ROOT].centroid, Len(reps[ROOT].elements), reps, 0)

\* where cluster i's block starts in the assignments a rank sends
BlockStart(r, i) == SumTo([j \in 0 .. k - 1 |-> 1 + Len(clusters[r][j].elements)], i)

\* C28: the member count of a local cluster travels as one byte in
\* combineClusters and in collectClusterAssignments: s members arrive as
\* s mod 256, which is the weight the root merges with and the number of
\* members it reads back.
C28_CountSentAsByte ==
    /\ \A z \in Others : \A x \in 1 .. Len(toRoot[z]) : \A i \in 0 .. k - 1 :
          /\ toRoot[z][x].tag = "report" =>
                toRoot[z][x].buf[i * (d + 1) + d]
                    = Len(clusters[z][i].elements) % ByteRange
          /\ toRoot[z][x].tag = "assignments" =>
                toRoot[z][x].buf[BlockStart(z, i)]
                    = Len(clusters[z][i].elements) % ByteRange
    /\ pc[ROOT] = "distributeCentroidsInLoop" =>
          LET own == updateClusters(partition[ROOT], dist[ROOT], maxNum[ROOT])
          IN  /\ DOMAIN own = 0 .. k - 1
              /\ \A i \in 0 .. k - 1 :
                    clusters[ROOT][i].centroid
                        = FoldBytes([z \in Ranks |->
                                        IF z = ROOT THEN own[i] ELSE clusters[z][i]])
    /\ (pc[ROOT] = "done" /\ k = 1) =>
          Len(clusters[ROOT][0].elements)
              = SumTo([z \in Ranks |-> ShardSize(z, n, worldSize) % ByteRange], worldSize)

\* two shards of more than 256 members each: the root has merged the other
\* shard's centroid with a weight below 256 and read back fewer than 256
\* members for each shard
C28_Witness ==
    /\ worldSize = 2
    /\ pc[ROOT] = "done"
    /\ \A z \in Ranks : ShardSize(z, n, worldSize) >= ByteRange
    /\ Len(clusters[ROOT][0].elements) < ByteRange
    /\ clusters[ROOT][0].centroid = Pt(0, 0)

\* C29: the first round always executes: at generation 0 prev differs from
\* clusters on every rank, whatever the initial centroid (255 wraps to 0), and
\* no rank leaves the loop with zero rounds executed.
C29_FirstRoundExecutes ==
    \A r \in Ranks :
        /\ (pc[r] = "loopTest" /\ generation[r] = 0) =>
              /\ prev[r] # Centroids(clusters[r])
              /\ prev[r][0][0] = (clusters[r][0].centroid[0] + 1) % ByteRange
              /\ Decision(r) = "continue"
        /\ LeftLoop(r) => generation[r] >= 1

\* the first round has begun from a centroid whose first channel is 255: prev
\* holds the wrapped 0
C29_Witness ==
    \E r \in Ranks :
        /\ pc[r] = "updateDistances"
        /\ generation[r] = 0
        /\ clusters[r][0].centroid[0] = ByteRange - 1
        /\ prev[r][0][0] = 0

Least(a, b) == IF a <= b THEN a ELSE b

Greatest(a, b) == IF a >= b THEN a ELSE b

\* C30: for updateCentroid with counts >= 0 whose sum is positive, each
\* resulting channel lies between the least and the greatest of centroid[i] and
\* newElement[i], hence in 0..255: the narrowing to unsigned char never wraps.
C30_UpdateCentroidInRange ==
    [][\A z \in todo :
          (todo' = todo \ {z} /\ acc.clusterSize + reports[z].size > 0) =>
              \A i \in Dims :
                  /\ acc'.centroid[i] >= Least(acc.centroid[i], reports[z].centroid[i])
                  /\ acc'.centroid[i] <= Greatest(acc.centroid[i], reports[z].centroid[i])
                  /\ acc'.centroid[i] \in 0 .. ByteRange - 1]_vars

\* a merge whose weighted total, 255 + 254, is past a byte: the result is
\* 254, and 128 from 1 and 255
C30_Witness ==
    /\ todo # DOMAIN reports
    /\ acc = [centroid |-> Pt(254, 128), clusterSize |-> 2]
    /\ \E z \in DOMAIN reports \ todo : reports[z] = [centroid |-> Pt(254, 255), size |-> 1]

(* ===== collectClusterAssignments, the gathered buffer ===== *)

\* what rank z hands to MPI_Gatherv when the root is about to gather
SentAssignments(z) ==
    IF z = ROOT
    THEN CollectSendbuf(clusters[ROOT], colorIds[ROOT], maxNum[ROOT])
    ELSE Head(toRoot[z]).buf

\* cluster i's list of identities in the bytes of rank z
SentList(z, i) ==
    [e \in 1 .. Len(clusters[z][i].elements) |->
        SentAssignments(z)[BlockStart(z, i) + e]]

RECURSIVE GatheredList(_, _)
\* the lists of ranks z .. P-1 for cluster i, in rank order
GatheredList(i, z) ==
    IF z >= worldSize THEN << >> ELSE SentList(z, i) \o GatheredList(i, z + 1)

\* the root is about to complete the final gather
RootGathers ==
    /\ pc[ROOT] = "collectClusterAssignments"
    /\ \A z \in Others : toRoot[z] # << >>

\* C31: in collectClusterAssignments every rank's message holds exactly
\* maxNum + k bytes, recvcounts[z] is rank z's sendcount, the regions
\* [displs[z], displs[z] + recvcounts[z]) tile 0 .. n + k*P - 1 in rank order,
\* and so the root's deserialization reads every rank's k lists at the right
\* offsets: its final list of cluster i is the ranks' lists of cluster i in
\* rank order.
C31_GatherLayout ==
    [][RootGathers =>
          /\ \A z \in Ranks :
                /\ BlockStart(z, k) = maxNum[z] + k
                /\ Cardinality(DOMAIN SentAssignments(z)) = maxNum[z] + k
                /\ GatherRecvcount(z, nColors[ROOT], proccesses[ROOT]) = maxNum[z] + k
                /\ GatherDispl(z, nColors[ROOT], proccesses[ROOT])
                       + GatherRecvcount(z, nColors[ROOT], proccesses[ROOT])
                   = IF z = worldSize - 1 THEN n + k * worldSize
                     ELSE GatherDispl(z + 1, nColors[ROOT], proccesses[ROOT])
          /\ GatherDispl(0, nColors[ROOT], proccesses[ROOT]) = 0
          /\ pc'[ROOT] = "done" =>
                \A i \in 0 .. k - 1 :
                    clusters'[ROOT][i].elements = GatheredList(i, 0)]_vars

\* the layout alone, which no cluster size affects
GatherRegionsTile ==
    RootGathers =>
        /\ \A z \in Ranks :
              /\ BlockStart(z, k) = maxNum[z] + k
              /\ Cardinality(DOMAIN SentAssignments(z)) = maxNum[z] + k
              /\ GatherRecvcount(z, nColors[ROOT], proccesses[ROOT]) = maxNum[z] + k
              /\ GatherDispl(z, nColors[ROOT], proccesses[ROOT])
                     + GatherRecvcount(z, nColors[ROOT], proccesses[ROOT])
                 = IF z = worldSize - 1 THEN n + k * worldSize
                   ELSE GatherDispl(z + 1, nColors[ROOT], proccesses[ROOT])
        /\ GatherDispl(0, nColors[ROOT], proccesses[ROOT]) = 0

(* ===== fitWork as one sequential computation ===== *)

\* rank r's shard and identities, straight from the dataset
ShardOf(r) ==
    [x \in 0 .. ShardSize(r, n, worldSize) - 1 |-> elements[ShardStart(r) + x]]

IdsOf(r) ==
    [x \in 0 .. ShardSize(r, n, worldSize) - 1 |-> Byte(ShardStart(r) + x)]

WithCentroids(cents) == [i \in 0 .. k - 1 |-> [centroid |-> cents[i], elements |-> << >>]]

\* updateDistances and updateClusters of every rank against the centroids cents
\* (the test is always true and only has TLC finish the shard and the
\* distances before updateClusters reads them)
LocalsOf(cents) ==
    [r \in Ranks |->
        LET mx   == ShardSize(r, n, worldSize)
            part == ShardOf(r)
            dst  == Distances(WithCentroids(cents), part, mx)
        IN  IF part = part /\ dst = dst
            THEN updateClusters(part, dst, mx)
            ELSE ResetClusters]

\* combineClusters at the root on the ranks' local clusters
MergedOf(locals) ==
    LET sendCount == k * (d + 1)
        recvbuf == [x \in 0 .. worldSize * sendCount - 1 |->
                       CombineSendbuf(locals[x \div sendCount])[x % sendCount]]
    IN  MergeClusters(locals[ROOT], recvbuf, worldSize)

\* collectClusterAssignments at the root on the ranks' local clusters
CollectedOf(rootClusters, locals) ==
    LET msgs == [z \in Ranks |->
                    CollectSendbuf(locals[z], IdsOf(z), ShardSize(z, n, worldSize))]
    IN  Deserialize(rootClusters, GatherRecvbuf(msgs, n, worldSize), worldSize)

\* one pass through the head of fitWork's loop with all ranks in step: the
\* loop is left at the cap or on unchanged centroids, or one round is run
LoopStep(s) ==
    IF s.exitVia # "none" THEN s
    ELSE IF ~ WithinCap(s.generation) THEN [s EXCEPT !.exitVia = "CAPPED"]
    ELSE IF s.before = s.cents THEN [s EXCEPT !.exitVia = "CONVERGED"]
    ELSE LET next   == LocalsOf(s.cents)
             merged == Centroids(MergedOf(next))
         IN  \* the two tests are always true and only have TLC finish the
             \* ranks' clusters before the merge, and the merge before the
             \* next pass
             IF next = next /\ merged = merged
             THEN [exitVia |-> "none", generation |-> NextGeneration(s.generation),
                   cents |-> merged, before |-> s.cents, locals |-> next]
             ELSE s

RECURSIVE RoundsFrom(_, _)
\* the loop from s on for at most steps passes: the first half of them and,
\* if the loop has not been left by then, the rest
RoundsFrom(s, steps) ==
    IF steps = 0 THEN s
    ELSE IF steps = 1 THEN LoopStep(s)
    ELSE LET w == RoundsFrom(s, steps \div 2)
         IN  IF w.exitVia # "none" THEN w
             ELSE RoundsFrom(w, steps - (steps \div 2))

\* the run from the sampled centroids on: at most MAX_NUM_GENERATIONS rounds
\* and the pass that leaves the loop
SequentialRun ==
    LET first == Centroids(SelectedClusters(samplePool, [i \in 0 .. k - 1 |-> ZeroElement]))
        run   == RoundsFrom([exitVia |-> "none", generation |-> 0, cents |-> first,
                             before |-> [first EXCEPT ![0][0] = Byte(@ + 1)],
                             locals |-> [r \in Ranks |-> WithCentroids(first)]],
                            MAX_NUM_GENERATIONS + 1)
    IN  [exitVia |-> run.exitVia,
         generation |-> run.generation,
         clusters |-> CollectedOf([i \in 0 .. k - 1 |->
                                      [centroid |-> run.cents[i],
                                       elements |-> run.locals[ROOT][i].elements]],
                                  run.locals)]

\* C32: the result is a function of the dataset, P and the initial centroids:
\* however the ranks' steps interleave, every run ends in the same terminal
\* state after the same number of rounds, with the same final centroids and
\* membership (those of the sequential computation).
C32_ResultDeterministic ==
    (\A r \in Ranks : pc[r] = "done") =>
        LET run == SequentialRun
        IN  /\ \A r \in Ranks :
                  /\ exitVia[r] = run.exitVia
                  /\ generation[r] = run.generation
            /\ clusters[ROOT] = run.clusters

\* two ranks have ended a run of two clusters that took more than two rounds
C32_Witness ==
    /\ worldSize = 2 /\ k = 2
    /\ \A r \in Ranks : pc[r] = "done"
    /\ generation[ROOT] >= 3
    /\ \A i \in 0 .. k - 1 : clusters[ROOT][i].elements # << >>

(* ===== Sum-Convert: prefixSums ===== *)

\* the C++ remainder of a by a positive b
CRem(a, b) == IF a >= 0 THEN a % b ELSE 0 - ((0 - a) % b)

RECURSIVE EncodeFrom(_, _)
\* the loop body v = ((v * v) + v) % 10 run rounds times over: the first half
\* of the rounds, then the rest
EncodeFrom(v, rounds) ==
    IF rounds = 0 THEN v
    ELSE IF rounds = 1 THEN CRem((v * v) + v, 10)
    ELSE LET w == EncodeFrom(v, rounds \div 2)
         IN  IF w \in Int THEN EncodeFrom(w, rounds - (rounds \div 2)) ELSE w

encode(v) == EncodeFrom(v, EncodeRounds)

decode(v) == encode(v)

Groups == {"encoders", "decoders"}

Convert(g, v) == IF g = "encoders" THEN encode(v) ELSE decode(v)

\* the range of the array thread id processes
SegStart(id) == id * sums.segSize

SegEnd_NoRemainder(id) == SegStart(id) + sums.segSize

SegEnd(id) == IF id = numThreads - 1 THEN sums.length ELSE SegStart(id) + sums.segSize

SumArrays ==
    UNION {[0 .. len - 1 -> 0 .. MaxValue] : len \in 0 .. MaxLength}

\* prefixSums has set up threadData
InitSums ==
    /\ NoFit /\ NoMerge /\ NoHeap /\ NoBitonic
    /\ \E a \in SumArrays :
          sums = [data |-> a, length |-> Cardinality(DOMAIN a),
                  segSize |-> Cardinality(DOMAIN a) \div numThreads,
                  pc |-> "encoders", created |-> 0, i |-> 0, encodedSum |-> 0,
                  holding |-> FALSE, touched |-> {},
                  encoders |-> NoThreads, decoders |-> NoThreads]

\* ThreadGroup<T>::createThread(id, &threadData): a new thread runs
\* T()(id, &threadData)
createThread(g, id) ==
    /\ sums.pc = g
    /\ sums.created = id
    /\ id < numThreads
    /\ sums' = [sums EXCEPT !.created = id + 1,
                            ![g][id] = [state |-> "running", i |-> SegStart(id),
                                        held |-> 0, holding |-> FALSE,
                                        touched |-> {}]]
    /\ UNCHANGED <<fitState, calc, heap, bitonic>>

\* one step of thread id of group g: the read of data[i], the write of the
\* converted value, or the return after the loop
ThreadStep(g, id) ==
    LET t == sums[g][id]
    IN  /\ sums.pc = g
        /\ t.state = "running"
        /\ IF t.i >= SegEnd(id)
           THEN sums' = [sums EXCEPT ![g][id].state = "returned"]
           ELSE IF ~ t.holding
           THEN sums' = [sums EXCEPT ![g][id].held = sums.data[t.i],
                                     ![g][id].holding = TRUE,
                                     ![g][id].touched = @ \cup {t.i}]
           ELSE sums' = [sums EXCEPT !.data[t.i] = Convert(g, t.held),
                                     ![g][id].holding = FALSE,
                                     ![g][id].i = @ + 1]
        /\ UNCHANGED <<fitState, calc, heap, bitonic>>

EncodeThread(id) == ThreadStep("encoders", id)

DecodeThread(id) == ThreadStep("decoders", id)

\* ThreadGroup<T>::waitForAll(): returns when every thread of the group has
\* returned
waitForAll(g) ==
    /\ sums.pc = g
    /\ sums.created = numThreads
    /\ \A id \in 0 .. numThreads - 1 : sums[g][id].state = "returned"
    /\ sums' = [sums EXCEPT !.pc = IF g = "encoders" THEN "sum" ELSE "returned",
                            !.i = 0, !.encodedSum = 0]
    /\ UNCHANGED <<fitState, calc, heap, bitonic>>

\* one step of the main thread's loop: encodedSum += data[i], then
\* data[i] = encodedSum, or the loop's exit
CumulativeSum ==
    /\ sums.pc = "sum"
    /\ IF sums.i >= sums.length
       THEN sums' = [sums EXCEPT !.pc = "decoders", !.created = 0]
       ELSE IF ~ sums.holding
       THEN sums' = [sums EXCEPT !.encodedSum = @ + sums.data[sums.i],
                                 !.holding = TRUE,
                                 !.touched = @ \cup {sums.i}]
       ELSE sums' = [sums EXCEPT !.data[sums.i] = sums.encodedSum,
                                 !.holding = FALSE,
                                 !.i = @ + 1]
    /\ UNCHANGED <<fitState, calc, heap, bitonic>>

NextSums ==
    \/ \E g \in Groups : \E id \in 0 .. numThreads - 1 : createThread(g, id)
    \/ \E id \in 0 .. numThreads - 1 : EncodeThread(id)
    \/ CumulativeSum
    \/ \E id \in 0 .. numThreads - 1 : DecodeThread(id)
    \/ \E g \in Groups : waitForAll(g)

SpecSums == InitSums /\ [][NextSums]_vars

\* who may touch the array: the main thread and the four threads
Agents == {<<"main", 0>>} \cup (Groups \X (0 .. numThreads - 1))

\* the element agent a is in the middle of accessing, if any
Accessing(a) ==
    IF a[1] = "main"
    THEN IF sums.holding THEN {sums.i} ELSE {}
    ELSE IF sums[a[1]][a[2]].holding THEN {sums[a[1]][a[2]].i} ELSE {}

Half == sums.length \div 2

HalfRange(id) == IF id = 0 THEN 0 .. Half - 1 ELSE Half .. sums.length - 1

\* C33: prefixSums runs three strictly ordered phases: the two encoders work
\* on [0, length/2) and [length/2, length), disjoint and together the whole
\* array; the main thread's cumulative sum touches the array only after both
\* encoders have returned; the decoders exist only after the sum is complete;
\* and no element is accessed by two threads at once, for every length
\* including 0 and odd lengths.
C33_PhasesOrdered ==
    sums.pc # "none" =>
        /\ \A g \in Groups : \A id \in 0 .. numThreads - 1 :
              /\ sums[g][id].touched \subseteq HalfRange(id)
              /\ sums[g][id].state = "returned" => sums[g][id].touched = HalfRange(id)
        /\ HalfRange(0) \cap HalfRange(1) = {}
        /\ HalfRange(0) \cup HalfRange(1) = DOMAIN sums.data
        /\ (sums.touched # {} \/ sums.pc = "sum") =>
              \A id \in 0 .. numThreads - 1 : sums.encoders[id].state = "returned"
        /\ (\E id \in 0 .. numThreads - 1 : sums.decoders[id].state # "none") =>
              /\ sums.touched = DOMAIN sums.data
              /\ ~ sums.holding
              /\ \A id \in 0 .. numThreads - 1 : sums.encoders[id].state = "returned"
        /\ \A a, b \in Agents : a # b => Accessing(a) \cap Accessing(b) = {}

\* an array of odd length: both decoders are in the middle of an access
C33_Witness ==
    /\ sums.pc = "decoders"
    /\ sums.length = 3
    /\ \A id \in 0 .. numThreads - 1 : sums.decoders[id].holding

(* ===== Heap: size and capacity ===== *)

\* C34: 0 <= size <= capacity in every state of a heap made by any
\* constructor (default, from an array of any size, copy, assignment) and used
\* by any sequence of enqueue and dequeue, and enqueue writes its item at an
\* index below the capacity.
C34_SizeWithinCapacity ==
    [][/\ heapPc' # "new" => (0 <= heapSize' /\ heapSize' <= capacity')
       /\ (\E newItem \in HeapValues : Enqueue(newItem)) => heapSize < capacity']_vars

\* the same for the heaps whose array was allocated with room
SizeWithinCapacityWithRoom ==
    [][capacity' > 0 =>
          /\ 0 <= heapSize' /\ heapSize' <= capacity'
          /\ (\E newItem \in HeapValues : Enqueue(newItem)) => heapSize < capacity']_vars

=============================================================================
